---- MODULE Spec2Model ----
(***************************************************************************)
(* Risk Scoring Engine of cryoCommand (RiskEngineService) together with    *)
(* the services that write the data it reads (VehiclesService,             *)
(* AlertsService, TripsService, SeedService).                              *)
(*                                                                         *)
(* Units.  Time is counted in ticks of 30 seconds, so that the division by *)
(* (1000 * 60) and the Math.round of the source are real computations.     *)
(* Temperatures are whole degrees Celsius; an average temperature is the   *)
(* exact fraction <<sum, count>>.  Latitudes are thousandths of a degree   *)
(* and every GPS point lies on the meridian of longitude 0, where the      *)
(* Haversine formula reduces to R * |dLat|; distances are whole metres.    *)
(* JavaScript numbers are modelled by exact integer/rational arithmetic.   *)
(***************************************************************************)
EXTENDS Integers, Sequences, FiniteSets, TLC

VARIABLES
  now,                  \* the wall clock read by every `new Date()`
  vehicle,              \* prisma.vehicle: set of documents
  sensorReading,        \* prisma.sensorReading
  alert,                \* prisma.alert
  trip,                 \* prisma.trip
  tripReading,          \* prisma.tripReading
  tripAlert,            \* prisma.tripAlert
  vehicleRiskSnapshot,  \* prisma.vehicleRiskSnapshot, in creation order
  tripRiskSnapshot,     \* prisma.tripRiskSnapshot, in creation order
  minted,               \* how many identifiers of each kind were generated
  response,             \* outcome of the most recent scoring call
  inflight              \* the scoring calls running concurrently, each with
                        \* its local variables and its position in the code

store == <<vehicle, sensorReading, alert, trip, tripReading, tripAlert>>
snapshots == <<vehicleRiskSnapshot, tripRiskSnapshot>>
vars == <<now, vehicle, sensorReading, alert, trip, tripReading, tripAlert,
          vehicleRiskSnapshot, tripRiskSnapshot, minted, response, inflight>>

-----------------------------------------------------------------------------
(* Bounds of the model *)

\* documents ever stored, over all collections but the risk snapshots
MaxStored == 3
\* risk snapshots stored
MaxSnapshots == 2

\* 30-second ticks per minute: the source divides milliseconds by 1000 * 60
TicksPerMinute == 2

-----------------------------------------------------------------------------
(* JavaScript helpers *)

\* JavaScript null for a nullable Date / number: <<>>; a present value v: <<v>>
null == <<>>

Min(a, b) == IF a < b THEN a ELSE b
Max(a, b) == IF a > b THEN a ELSE b
Abs(a) == IF a < 0 THEN -a ELSE a

\* Math.round(num / den) for den > 0: nearest integer, halves towards +infinity
Round(num, den) == (2 * num + den) \div (2 * den)

\* (num / den).toFixed(1), as a count of tenths: halves away from zero
ToFixed1(num, den) ==
  IF num < 0 THEN -Round(10 * (-num), den) ELSE Round(10 * num, den)

\* a factor's reason: the message template and the numbers formatted into it
Reason(text, args) == [text |-> text, args |-> args]
NoReason == Reason("null", <<>>)

Factor(score, reason) == [score |-> score, reason |-> reason]

\* identifiers: uuidv4() and the seed's composed ids never collide across kinds
Id(kind, n) == [kind |-> kind, n |-> n]

RECURSIVE SumSeq(_)
SumSeq(s) == IF s = <<>> THEN 0 ELSE Head(s) + SumSeq(Tail(s))

\* Prisma `take: n`
Take(s, n) == SubSeq(s, 1, Min(Len(s), n))

\* Prisma `orderBy: { timestamp: 'asc' }`; equal timestamps keep insertion order
RECURSIVE OrderByTimestampAsc(_)
OrderByTimestampAsc(S) ==
  IF S = {} THEN <<>>
  ELSE LET first == CHOOSE r \in S : \A q \in S :
                      \/ r.timestamp < q.timestamp
                      \/ r.timestamp = q.timestamp /\ r.id.n <= q.id.n
       IN <<first>> \o OrderByTimestampAsc(S \ {first})

\* the temperatures of a set of reading documents, one entry per document
RECURSIVE Temperatures(_)
Temperatures(S) ==
  IF S = {} THEN <<>>
  ELSE LET r == CHOOSE r \in S : TRUE
       IN <<r.temperature>> \o Temperatures(S \ {r})

SetMin(S) == CHOOSE m \in S : \A e \in S : m <= e
SetMax(S) == CHOOSE m \in S : \A e \in S : m >= e
Squares(s) == [i \in 1..Len(s) |-> s[i] * s[i]]

-----------------------------------------------------------------------------
(* RiskEngineService: pure parts *)

\* scoreToLevel with the thresholds compared by > in place of >=
scoreToLevelStrict(score) ==
  IF score > 67 THEN "HIGH" ELSE IF score > 34 THEN "MEDIUM" ELSE "LOW"

\* scoreToLevel
scoreToLevel(score) ==
  IF score >= 67 THEN "HIGH" ELSE IF score >= 34 THEN "MEDIUM" ELSE "LOW"

\* toRadians and haversineDistance, in metres.  For two points on one
\* meridian a = sin^2(dLat/2), so c = |dLat| (radians) and the distance is
\* R * |dLat| * pi/180 with R = 6371 km; pi is taken as 355/113.  Latitudes
\* are in 1/1000 degree, so km * 1000 / 1000 gives metres; the division is
\* done in two steps to stay within 32-bit integers.
haversineDistance(lat1, lon1, lat2, lon2) ==
  (((6371 * Abs(lat2 - lat1)) \div 180) * 355) \div 113

\* calculateTempVariance with the bonus added without Math.min
TempVarianceOfStatsUncapped(stats) ==
  LET variance == stats.maxTemp - stats.minTemp
      stdDevOver3 == stats.count * stats.sumSq - stats.sum * stats.sum
                       > 9 * stats.count * stats.count
      base == IF variance > 10 THEN 25
              ELSE IF variance > 5 THEN Round(variance * 25, 10)
              ELSE Round(variance * 15, 10)
      score == IF stdDevOver3 THEN base + 5 ELSE base
      reason == IF score >= 15
                  THEN Reason("High temperature variance", <<10 * variance>>)
                ELSE IF score >= 8
                  THEN Reason("Moderate temperature variance", <<10 * variance>>)
                ELSE NoReason
  IN Factor(score, reason)

\* calculateTempVariance with the middle branch taken from a range of 5 on
TempVarianceOfStatsFromFive(stats) ==
  LET variance == stats.maxTemp - stats.minTemp
      stdDevOver3 == stats.count * stats.sumSq - stats.sum * stats.sum
                       > 9 * stats.count * stats.count
      base == IF variance > 10 THEN 25
              ELSE IF variance >= 5 THEN Round(variance * 25, 10)
              ELSE Round(variance * 15, 10)
      score == IF stdDevOver3 THEN Min(base + 5, 25) ELSE base
      reason == IF score >= 15
                  THEN Reason("High temperature variance", <<10 * variance>>)
                ELSE IF score >= 8
                  THEN Reason("Moderate temperature variance", <<10 * variance>>)
                ELSE NoReason
  IN Factor(score, reason)

\* calculateTempVariance after the aggregation: `stats` is the $group result
\* (count, minTemp, maxTemp, and sum / sumSq from which $stdDevPop follows)
TempVarianceOfStats(stats) ==
  LET variance == stats.maxTemp - stats.minTemp
      \* stdDev > 3  <=>  n * sumSq - sum^2 > 9 * n^2
      stdDevOver3 == stats.count * stats.sumSq - stats.sum * stats.sum
                       > 9 * stats.count * stats.count
      base == IF variance > 10 THEN 25
              ELSE IF variance > 5 THEN Round(variance * 25, 10)
              ELSE Round(variance * 15, 10)
      score == IF stdDevOver3 THEN Min(base + 5, 25) ELSE base
      reason == IF score >= 15
                  THEN Reason("High temperature variance", <<10 * variance>>)
                ELSE IF score >= 8
                  THEN Reason("Moderate temperature variance", <<10 * variance>>)
                ELSE NoReason
  IN Factor(score, reason)

\* calculateUpdateGap with its thresholds compared by >= in place of >
calculateUpdateGapInclusive(lastUpdate) ==
  LET gap == now - lastUpdate
      score == IF gap >= 60 * TicksPerMinute THEN 20
               ELSE IF gap >= 30 * TicksPerMinute THEN 15
               ELSE IF gap >= 15 * TicksPerMinute THEN 10
               ELSE IF gap >= 5 * TicksPerMinute THEN 5
               ELSE 0
      reason == IF score >= 10
                  THEN Reason("Vehicle data is stale", <<Round(gap, TicksPerMinute)>>)
                ELSE NoReason
  IN Factor(score, reason)

\* calculateUpdateGap
calculateUpdateGap(lastUpdate) ==
  LET gap == now - lastUpdate    \* in ticks; gapMinutes = gap / TicksPerMinute
      score == IF gap > 60 * TicksPerMinute THEN 20
               ELSE IF gap > 30 * TicksPerMinute THEN 15
               ELSE IF gap > 15 * TicksPerMinute THEN 10
               ELSE IF gap > 5 * TicksPerMinute THEN 5
               ELSE 0
      reason == IF score >= 10
                  THEN Reason("Vehicle data is stale", <<Round(gap, TicksPerMinute)>>)
                ELSE NoReason
  IN Factor(score, reason)

\* the distance taken from the first point to the last
TotalDistanceEndToEnd(readings) ==
  IF Len(readings) < 2 THEN 0
  ELSE haversineDistance(readings[1].latitude, readings[1].longitude,
                         readings[Len(readings)].latitude,
                         readings[Len(readings)].longitude)

\* the loop of calculateDistanceFactor: pairwise Haversine summation
RECURSIVE TotalDistance(_)
TotalDistance(readings) ==
  IF Len(readings) < 2 THEN 0
  ELSE haversineDistance(readings[1].latitude, readings[1].longitude,
                         readings[2].latitude, readings[2].longitude)
       + TotalDistance(Tail(readings))

\* calculateDistanceFactor after the query: `readings` is the findMany result
DistanceFactorOf(readings) ==
  IF Len(readings) < 2
    THEN Factor(5, IF Len(readings) = 0
                     THEN Reason("No GPS data available for distance calculation", <<>>)
                     ELSE NoReason)
  ELSE
    LET metres == TotalDistance(readings)
        score == IF metres > 500 * 1000 THEN 25
                 ELSE IF metres > 300 * 1000 THEN 15
                 ELSE IF metres < 1000 /\ Len(readings) > 10 THEN 10
                 ELSE Round(metres * 10, 500 * 1000)
        reason == IF score >= 15
                    THEN Reason("Unusual distance pattern", <<Round(metres, 100)>>)
                  ELSE IF score >= 10
                    THEN Reason("Vehicle appears stationary despite active readings", <<>>)
                  ELSE NoReason
    IN Factor(score, reason)

\* calculateTempDeviation with the multipliers of its two proportional
\* branches exchanged
calculateTempDeviationSwapped(avgTemp, minTemp, maxTemp) ==
  IF avgTemp = null
    THEN Factor(5, Reason("No temperature readings recorded yet", <<>>))
  ELSE
    LET num == avgTemp[1]
        den == avgTemp[2]
        range == maxTemp - minTemp
        dev == IF num < minTemp * den THEN minTemp * den - num
               ELSE IF num > maxTemp * den THEN num - maxTemp * den
               ELSE 0
        edge == Min(Abs(num - minTemp * den), Abs(num - maxTemp * den))
        score == IF dev = 0 THEN (IF 10 * edge < range * den THEN 10 ELSE 0)
                 ELSE IF dev > 5 * den THEN 30
                 ELSE IF dev > 2 * den THEN Round(dev * 15, 5 * den)
                 ELSE Round(dev * 30, 5 * den)
        reason == IF dev > 0
                    THEN Reason("Average temperature is outside acceptable range",
                                <<ToFixed1(num, den), ToFixed1(dev, den), minTemp, maxTemp>>)
                  ELSE IF score >= 10
                    THEN Reason("Average temperature is near the edge of acceptable range",
                                <<ToFixed1(num, den), minTemp, maxTemp>>)
                  ELSE NoReason
    IN Factor(score, reason)

\* calculateTempDeviation counting an average at exactly 10% of the range
\* from the nearest bound as near the edge
calculateTempDeviationInclusive(avgTemp, minTemp, maxTemp) ==
  IF avgTemp = null
    THEN Factor(5, Reason("No temperature readings recorded yet", <<>>))
  ELSE
    LET num == avgTemp[1]
        den == avgTemp[2]
        range == maxTemp - minTemp
        dev == IF num < minTemp * den THEN minTemp * den - num
               ELSE IF num > maxTemp * den THEN num - maxTemp * den
               ELSE 0
        edge == Min(Abs(num - minTemp * den), Abs(num - maxTemp * den))
        score == IF dev = 0 THEN (IF 10 * edge <= range * den THEN 10 ELSE 0)
                 ELSE IF dev > 5 * den THEN 30
                 ELSE IF dev > 2 * den THEN Round(dev * 30, 5 * den)
                 ELSE Round(dev * 15, 5 * den)
        reason == IF dev > 0
                    THEN Reason("Average temperature is outside acceptable range",
                                <<ToFixed1(num, den), ToFixed1(dev, den), minTemp, maxTemp>>)
                  ELSE IF score >= 10
                    THEN Reason("Average temperature is near the edge of acceptable range",
                                <<ToFixed1(num, den), minTemp, maxTemp>>)
                  ELSE NoReason
    IN Factor(score, reason)

\* calculateTempDeviation; avgTemp is null or the fraction <<num, den>>
calculateTempDeviation(avgTemp, minTemp, maxTemp) ==
  IF avgTemp = null
    THEN Factor(5, Reason("No temperature readings recorded yet", <<>>))
  ELSE
    LET num == avgTemp[1]
        den == avgTemp[2]
        range == maxTemp - minTemp
        \* deviation = dev / den
        dev == IF num < minTemp * den THEN minTemp * den - num
               ELSE IF num > maxTemp * den THEN num - maxTemp * den
               ELSE 0
        \* distToEdge = edge / den
        edge == Min(Abs(num - minTemp * den), Abs(num - maxTemp * den))
        score == IF dev = 0 THEN (IF 10 * edge < range * den THEN 10 ELSE 0)
                 ELSE IF dev > 5 * den THEN 30
                 ELSE IF dev > 2 * den THEN Round(dev * 30, 5 * den)
                 ELSE Round(dev * 15, 5 * den)
        reason == IF dev > 0
                    THEN Reason("Average temperature is outside acceptable range",
                                <<ToFixed1(num, den), ToFixed1(dev, den), minTemp, maxTemp>>)
                  ELSE IF score >= 10
                    THEN Reason("Average temperature is near the edge of acceptable range",
                                <<ToFixed1(num, den), minTemp, maxTemp>>)
                  ELSE NoReason
    IN Factor(score, reason)

\* calculateViolationFactor with the operands of resolvedCount swapped
ViolationFactorOfSwapped(unresolvedAlerts, totalAlerts) ==
  LET resolvedCount == unresolvedAlerts - totalAlerts
      score == Min(unresolvedAlerts * 5 + resolvedCount * 2, 25)
      reason == IF totalAlerts > 0
                  THEN Reason("violation(s) detected", <<totalAlerts, unresolvedAlerts>>)
                ELSE NoReason
  IN Factor(score, reason)

\* calculateViolationFactor giving its reason only when an alert is unresolved
ViolationFactorOfUnresolvedOnly(unresolvedAlerts, totalAlerts) ==
  LET resolvedCount == totalAlerts - unresolvedAlerts
      score == Min(unresolvedAlerts * 5 + resolvedCount * 2, 25)
      reason == IF unresolvedAlerts > 0
                  THEN Reason("violation(s) detected", <<totalAlerts, unresolvedAlerts>>)
                ELSE NoReason
  IN Factor(score, reason)

\* calculateViolationFactor after its two count queries
ViolationFactorOf(unresolvedAlerts, totalAlerts) ==
  LET resolvedCount == totalAlerts - unresolvedAlerts
      score == Min(unresolvedAlerts * 5 + resolvedCount * 2, 25)
      reason == IF totalAlerts > 0
                  THEN Reason("violation(s) detected", <<totalAlerts, unresolvedAlerts>>)
                ELSE NoReason
  IN Factor(score, reason)

\* the delayMinutes of calculateDelayFactor; actualEnd is null or <<t>>
DelayMinutesUnguarded(plannedEnd, actualEnd, status) ==
  IF status = "active"
    THEN Round(now - plannedEnd, TicksPerMinute)
  ELSE IF actualEnd # null
    THEN Round(actualEnd[1] - plannedEnd, TicksPerMinute)
  ELSE 0

DelayMinutes(plannedEnd, actualEnd, status) ==
  IF status = "active"
    THEN (IF now > plannedEnd THEN Round(now - plannedEnd, TicksPerMinute) ELSE 0)
  ELSE IF actualEnd # null /\ actualEnd[1] > plannedEnd
    THEN Round(actualEnd[1] - plannedEnd, TicksPerMinute)
  ELSE 0

\* calculateDelayFactor giving its reason only for a delay above 30 minutes
calculateDelayFactorQuiet(plannedEnd, actualEnd, status) ==
  LET delayMinutes == DelayMinutes(plannedEnd, actualEnd, status)
      score == IF delayMinutes > 120 THEN 25
               ELSE IF delayMinutes > 60 THEN 20
               ELSE IF delayMinutes > 30 THEN 15
               ELSE IF delayMinutes > 10 THEN Round(delayMinutes * 15, 60)
               ELSE 0
      reason == IF delayMinutes > 30
                  THEN Reason("Trip is delayed beyond planned end", <<delayMinutes>>)
                ELSE NoReason
  IN [score |-> score, reason |-> reason, delayMinutes |-> delayMinutes]

\* calculateDelayFactor
calculateDelayFactor(plannedEnd, actualEnd, status) ==
  LET delayMinutes == DelayMinutes(plannedEnd, actualEnd, status)
      score == IF delayMinutes > 120 THEN 25
               ELSE IF delayMinutes > 60 THEN 20
               ELSE IF delayMinutes > 30 THEN 15
               ELSE IF delayMinutes > 10 THEN Round(delayMinutes * 15, 60)
               ELSE 0
      reason == IF delayMinutes > 0
                  THEN Reason("Trip is delayed beyond planned end", <<delayMinutes>>)
                ELSE NoReason
  IN [score |-> score, reason |-> reason, delayMinutes |-> delayMinutes]

\* the loop of calculateTempSpikes counting a jump of exactly 3 as a spike
SpikesInclusive(readings) ==
  LET diff(i) == Abs(readings[i].temperature - readings[i - 1].temperature)
  IN [i \in {j \in 2..Len(readings) : diff(j) >= 3} |-> diff(i)]

\* the loop of calculateTempSpikes: the jumps > 3 between consecutive readings
Spikes(readings) ==
  LET diff(i) == Abs(readings[i].temperature - readings[i - 1].temperature)
  IN [i \in {j \in 2..Len(readings) : diff(j) > 3} |-> diff(i)]

\* calculateTempSpikes adding the 5 points for a large jump without the cap
TempSpikesOfUncapped(readings) ==
  IF Len(readings) < 2 THEN Factor(0, NoReason)
  ELSE
    LET spikes == Spikes(readings)
        spikeCount == Cardinality(DOMAIN spikes)
        maxSpike == IF spikeCount = 0 THEN 0
                    ELSE SetMax({spikes[i] : i \in DOMAIN spikes})
        base == IF spikeCount > 10 THEN 20
                ELSE IF spikeCount > 5 THEN 15
                ELSE IF spikeCount > 0 THEN Round(spikeCount * 10, 5)
                ELSE 0
        score == IF maxSpike > 10 THEN base + 5 ELSE base
        reason == IF spikeCount > 0
                    THEN Reason("temperature spike(s) detected",
                                <<spikeCount, 10 * maxSpike>>)
                  ELSE NoReason
    IN Factor(score, reason)

\* calculateTempSpikes after the query: `readings` is the findMany result
TempSpikesOf(readings) ==
  IF Len(readings) < 2 THEN Factor(0, NoReason)
  ELSE
    LET spikes == Spikes(readings)
        spikeCount == Cardinality(DOMAIN spikes)
        maxSpike == IF spikeCount = 0 THEN 0
                    ELSE SetMax({spikes[i] : i \in DOMAIN spikes})
        base == IF spikeCount > 10 THEN 20
                ELSE IF spikeCount > 5 THEN 15
                ELSE IF spikeCount > 0 THEN Round(spikeCount * 10, 5)
                ELSE 0
        score == IF maxSpike > 10 THEN Min(base + 5, 20) ELSE base
        reason == IF spikeCount > 0
                    THEN Reason("temperature spike(s) detected",
                                <<spikeCount, 10 * maxSpike>>)
                  ELSE NoReason
    IN Factor(score, reason)

-----------------------------------------------------------------------------
(* Data access: the Prisma queries of RiskEngineService *)

\* findUnique without its where clause: the first document of the collection
findUniqueFirst(collection, visibleId) ==
  IF collection # {} THEN <<CHOOSE d \in collection : TRUE>> ELSE null

\* findUnique / findFirst by visibleId: null or <<document>>
findUnique(collection, visibleId) ==
  IF \E d \in collection : d.visibleId = visibleId
    THEN <<CHOOSE d \in collection : d.visibleId = visibleId>>
  ELSE null

\* sixHoursAgo / twentyFourHoursAgo: setHours(getHours() - h)
HoursAgo(h) == now - h * 60 * TicksPerMinute

\* the $group stage of calculateTempVariance over the matched documents
GroupStats(matched) ==
  LET temps == Temperatures(matched)
      values == {temps[i] : i \in 1..Len(temps)}
  IN IF matched = {} THEN null
     ELSE <<[count |-> Len(temps), minTemp |-> SetMin(values),
             maxTemp |-> SetMax(values), sum |-> SumSeq(temps),
             sumSq |-> SumSeq(Squares(temps))]>>

\* calculateTempVariance after the query: `result` is what aggregateRaw returned
TempVarianceOf(result) ==
  IF result = null \/ result[1].count = 0
    THEN Factor(5, Reason("No recent sensor readings in last 6 hours", <<>>))
  ELSE TempVarianceOfStats(result[1])

\* the aggregateRaw pipeline of calculateTempVariance: $match on the document
\* field `id` and on the timestamp, then $group; null when nothing matches
SensorStats(vehicleId) ==
  GroupStats({r \in sensorReading :
                r.id = vehicleId /\ r.timestamp >= HoursAgo(6)})

\* calculateTempVariance
calculateTempVariance(vehicleId) == TempVarianceOf(SensorStats(vehicleId))

\* calculateAlertFactor with is_resolved: false added to its $match
calculateAlertFactorUnresolved(vehicleId) ==
  LET matched == {a \in alert :
                    /\ a.vehicle_id = vehicleId
                    /\ a.created_at >= HoursAgo(24)
                    /\ ~a.is_resolved}
      count(sev) == Cardinality({a \in matched : a.severity = sev})
      totalCount == Cardinality(matched)
      criticalCount == count("critical")
      warningCount == count("warning")
  IN IF matched = {} THEN Factor(0, NoReason)
     ELSE Factor(Min(criticalCount * 6 + warningCount * 3, 30),
                 IF totalCount > 0
                   THEN Reason("alert(s) in last 24h",
                               <<totalCount, criticalCount, warningCount>>)
                 ELSE NoReason)

\* calculateAlertFactor: $match on vehicle_id and created_at, $group by severity
calculateAlertFactor(vehicleId) ==
  LET matched == {a \in alert :
                    a.vehicle_id = vehicleId /\ a.created_at >= HoursAgo(24)}
      count(sev) == Cardinality({a \in matched : a.severity = sev})
      totalCount == Cardinality(matched)
      criticalCount == count("critical")
      warningCount == count("warning")
  IN IF matched = {} THEN Factor(0, NoReason)
     ELSE Factor(Min(criticalCount * 6 + warningCount * 3, 30),
                 IF totalCount > 0
                   THEN Reason("alert(s) in last 24h",
                               <<totalCount, criticalCount, warningCount>>)
                 ELSE NoReason)

\* the findMany of calculateDistanceFactor
GpsReadings(vehicleId) ==
  Take(OrderByTimestampAsc({r \in sensorReading :
         r.vehicle_id = vehicleId /\ r.timestamp >= HoursAgo(6)}), 500)

\* calculateDistanceFactor
calculateDistanceFactor(vehicleId) == DistanceFactorOf(GpsReadings(vehicleId))

\* calculateViolationFactor counting the trip alerts of every trip
calculateViolationFactorAnyTrip(tripId) ==
  LET unresolvedAlerts == Cardinality({a \in tripAlert : ~a.is_resolved})
      totalAlerts == Cardinality(tripAlert)
  IN ViolationFactorOf(unresolvedAlerts, totalAlerts)

\* calculateViolationFactor: two tripAlert.count queries
calculateViolationFactor(tripId) ==
  LET unresolvedAlerts ==
        Cardinality({a \in tripAlert : a.trip_id = tripId /\ ~a.is_resolved})
      totalAlerts == Cardinality({a \in tripAlert : a.trip_id = tripId})
  IN ViolationFactorOf(unresolvedAlerts, totalAlerts)

\* calculateTempSpikes
calculateTempSpikes(tripId) ==
  TempSpikesOf(Take(OrderByTimestampAsc(
                 {r \in tripReading : r.trip_id = tripId}), 5000))

-----------------------------------------------------------------------------
(* RiskEngineService: the two scoring operations *)

\* the reasons array kept across calls in place of a fresh one per call
CollectReasonsShared(factors) ==
  LET given == SelectSeq(factors, LAMBDA f : f.reason # NoReason)
      kept == IF Len(vehicleRiskSnapshot) > 0
                THEN vehicleRiskSnapshot[Len(vehicleRiskSnapshot)].reasons
              ELSE <<>>
  IN kept \o [i \in 1..Len(given) |-> given[i].reason]

\* `if (x.reason) reasons.push(x.reason)` over the factors in evaluation order
CollectReasons(factors) ==
  LET given == SelectSeq(factors, LAMBDA f : f.reason # NoReason)
  IN [i \in 1..Len(given) |-> given[i].reason]

\* the default reason pushed without the length test
WithDefaultReasonAlways(reasons, default) ==
  Append(reasons, Reason(default, <<>>))

\* `if (reasons.length === 0) reasons.push(default)`
WithDefaultReason(reasons, default) ==
  IF Len(reasons) = 0 THEN <<Reason(default, <<>>)>> ELSE reasons

\* Math.min(Math.round(totalScore), 100)
FinalScore(factors) ==
  Min(Round(SumSeq([i \in 1..Len(factors) |-> factors[i].score]), 1), 100)

\* what getVehicleRiskScore computes for an existing vehicle document
VehicleRisk(v) ==
  LET factors == << calculateTempVariance(v.visibleId),
                    calculateAlertFactor(v.visibleId),
                    calculateUpdateGap(v.last_update),
                    calculateDistanceFactor(v.visibleId) >>
      score == FinalScore(factors)
  IN [score |-> score,
      level |-> scoreToLevel(score),
      reasons |-> WithDefaultReason(CollectReasons(factors),
                    "All vehicle metrics are within normal range"),
      factors |-> factors]

\* the fallback written as `?? 0`
AcceptableRangeZero(found) ==
  IF found = null THEN <<0, 0>> ELSE <<found[1].min_temp, found[1].max_temp>>

\* the predicted ETA with the delay added whatever the status of the trip
PredictedEtaAlwaysDelayed(t, delayMinutes) ==
  t.planned_end + delayMinutes * TicksPerMinute

\* `vehicle?.min_temp ?? -25`, `vehicle?.max_temp ?? -15`: the acceptable
\* range of the trip's vehicle, `found` being the result of vehicle.findFirst
AcceptableRange(found) ==
  IF found = null THEN <<-25, -15>> ELSE <<found[1].min_temp, found[1].max_temp>>

\* the predicted ETA of getTripRiskForecast
PredictedEta(t, delayMinutes) ==
  IF t.status = "active" THEN t.planned_end + delayMinutes * TicksPerMinute
  ELSE IF t.actual_end # null THEN t.actual_end[1]
  ELSE t.planned_end

\* what getTripRiskForecast computes for an existing trip document
TripRisk(t) ==
  LET found == findUnique(vehicle, t.vehicle_id)
      minTemp == AcceptableRange(found)[1]
      maxTemp == AcceptableRange(found)[2]
      delayResult == calculateDelayFactor(t.planned_end, t.actual_end, t.status)
      factors == << calculateTempDeviation(t.avg_temp_recorded, minTemp, maxTemp),
                    calculateViolationFactor(t.visibleId),
                    Factor(delayResult.score, delayResult.reason),
                    calculateTempSpikes(t.visibleId) >>
      score == FinalScore(factors)
      expectedDelayMinutes == delayResult.delayMinutes
      predictedEta == PredictedEta(t, expectedDelayMinutes)
  IN [score |-> score,
      level |-> scoreToLevel(score),
      reasons |-> WithDefaultReason(CollectReasons(factors),
                    "All trip metrics are within normal range"),
      factors |-> factors,
      predicted_eta |-> predictedEta,
      expected_delay_minutes |-> expectedDelayMinutes]

\* storeVehicleRiskSnapshot as an upsert keyed by vehicle_id
storeVehicleRiskSnapshotUpsert(vehicleId, score, level, reasons) ==
  Append(SelectSeq(vehicleRiskSnapshot, LAMBDA d : d.vehicle_id # vehicleId),
         [visibleId |-> Id("vehicle-risk", minted["vehicle-risk"] + 1),
          vehicle_id |-> vehicleId, score |-> score, level |-> level,
          reasons |-> reasons, calculated_at |-> now])

\* the document created by storeVehicleRiskSnapshot
storeVehicleRiskSnapshot(vehicleId, score, level, reasons) ==
  Append(vehicleRiskSnapshot,
         [visibleId |-> Id("vehicle-risk", minted["vehicle-risk"] + 1),
          vehicle_id |-> vehicleId, score |-> score, level |-> level,
          reasons |-> reasons, calculated_at |-> now])

\* the document created by storeTripRiskSnapshot
storeTripRiskSnapshot(tripId, score, level, predictedEta, expectedDelayMinutes) ==
  Append(tripRiskSnapshot,
         [visibleId |-> Id("trip-risk", minted["trip-risk"] + 1),
          trip_id |-> tripId, score |-> score, level |-> level,
          predicted_eta |-> predictedEta,
          expected_delay_minutes |-> expectedDelayMinutes,
          calculated_at |-> now])

Mint(kind) == [minted EXCEPT ![kind] = @ + 1]

\* documents ever written by the services and the seed
Stored == minted["vehicle"] + minted["trip"] + minted["sensor"] + minted["alert"]
          + minted["trip-reading"] + minted["trip-alert"]

\* the outcome of a call: `failed` is the read the data store did not answer
\* (0: none), `reads` the reads the call issued, `body` null when the call threw
Response(op, id, status, failed, reads, body) ==
  [op |-> op, id |-> id, status |-> status, failed |-> failed,
   reads |-> reads, body |-> body]

\* the data-store reads of one call, in order
VehicleScoreReads == <<"vehicle.findUnique", "sensorReading.aggregateRaw",
                       "alert.aggregateRaw", "sensorReading.findMany">>
TripForecastReads == <<"trip.findUnique", "vehicle.findFirst",
                       "tripAlert.count", "tripAlert.count", "tripReading.findMany">>

\* callStatus with the failure of the fourth read caught and ignored
callStatusSwallowed(found, failing) ==
  IF failing = 1 THEN "DataUnavailable"
  ELSE IF found = null THEN "NotFound"
  ELSE IF failing > 1 /\ failing < 4 THEN "DataUnavailable"
  ELSE "ok"

\* How a call ends when the data store fails to answer its read number
\* `failing` (0: it answers all) and the subject lookup returned `found`:
\* no await of the two operations is wrapped in try/catch, so a rejected
\* read rejects the call; `if (!vehicle) throw new NotFoundException`
callStatus(found, failing) ==
  IF failing = 1 THEN "DataUnavailable"
  ELSE IF found = null THEN "NotFound"
  ELSE IF failing > 1 THEN "DataUnavailable"
  ELSE "ok"

\* a call that threw: the reads issued up to the throw, no body
Thrown(op, id, status, failing) ==
  IF status = "NotFound" THEN Response(op, id, status, 0, 1, null)
  ELSE Response(op, id, status, failing, failing, null)

\* getVehicleRiskScore(vehicleId): what it returns and what it writes
VehicleScoreCall(vehicleId, failing) ==
  LET found == findUnique(vehicle, vehicleId)
      status == callStatus(found, failing)
  IN IF status # "ok"
       THEN /\ response' = Thrown("getVehicleRiskScore", vehicleId, status, failing)
            /\ UNCHANGED <<snapshots, minted>>
     ELSE LET r == VehicleRisk(found[1])
          IN /\ vehicleRiskSnapshot' =
                  storeVehicleRiskSnapshot(vehicleId, r.score, r.level, r.reasons)
             /\ minted' = Mint("vehicle-risk")
             /\ response' = Response("getVehicleRiskScore", vehicleId, "ok", failing,
                                     Len(VehicleScoreReads), <<r>>)
             /\ UNCHANGED tripRiskSnapshot

\* getVehicleRiskScore that also refreshes last_update of the vehicle
getVehicleRiskScoreTouching(vehicleId, failing) ==
  /\ Len(vehicleRiskSnapshot) + Len(tripRiskSnapshot) < MaxSnapshots
  /\ VehicleScoreCall(vehicleId, failing)
  /\ vehicle' = {[v EXCEPT !.last_update = IF v.visibleId = vehicleId THEN now ELSE @]
                    : v \in vehicle}
  /\ UNCHANGED <<inflight, now, sensorReading, alert, trip, tripReading, tripAlert>>

\* getVehicleRiskScore(vehicleId)
getVehicleRiskScore(vehicleId, failing) ==
  /\ Len(vehicleRiskSnapshot) + Len(tripRiskSnapshot) < MaxSnapshots
  /\ VehicleScoreCall(vehicleId, failing)
  /\ UNCHANGED <<inflight, now, store>>

\* getTripRiskForecast(tripId): what it returns and what it writes
TripForecastCall(tripId, failing) ==
  LET found == findUnique(trip, tripId)
      status == callStatus(found, failing)
  IN IF status # "ok"
       THEN /\ response' = Thrown("getTripRiskForecast", tripId, status, failing)
            /\ UNCHANGED <<snapshots, minted>>
     ELSE LET r == TripRisk(found[1])
          IN /\ tripRiskSnapshot' =
                  storeTripRiskSnapshot(tripId, r.score, r.level,
                                        r.predicted_eta, r.expected_delay_minutes)
             /\ minted' = Mint("trip-risk")
             /\ response' = Response("getTripRiskForecast", tripId, "ok", failing,
                                     Len(TripForecastReads), <<r>>)
             /\ UNCHANGED vehicleRiskSnapshot

\* getTripRiskForecast(tripId)
getTripRiskForecast(tripId, failing) ==
  /\ Len(vehicleRiskSnapshot) + Len(tripRiskSnapshot) < MaxSnapshots
  /\ TripForecastCall(tripId, failing)
  /\ UNCHANGED <<inflight, now, store>>

-----------------------------------------------------------------------------
(* Inputs of the model *)

\* the instants (in ticks) at which the clock is read
Instants == {0, 245}

\* acceptable ranges given to VehiclesService.create (the first is the default)
TempRanges == {<<-25, -15>>, <<2, 8>>}
Temps == {-21, -4}
Latitudes == {0, 5000}
Severities == {"critical", "info"}
\* how far back (in hours) the seed dates a sensor reading or an alert
SeedAgesHours == {1}
\* how far back (in quarter hours) the seed dates a trip reading
TripReadingAges == {0}
\* planned_end of TripCreateDto
PlannedEnds == {100}
\* status and planned_end of TripUpdateDto: absent, or any string
UpdatedStatuses == {null, <<"active">>, <<"completed">>}
UpdatedPlannedEnds == {null, <<100>>}

Kinds == {"vehicle", "trip", "sensor", "alert", "trip-reading", "trip-alert",
          "vehicle-risk", "trip-risk"}

\* the identifiers a caller may pass: those generated so far and an unknown one
VehicleIds == {Id("vehicle", n) : n \in 1..(minted["vehicle"] + 1)}
TripIds == {Id("trip", n) : n \in 1..(minted["trip"] + 1)}

-----------------------------------------------------------------------------
(* The clock *)

Tick == /\ \E t \in Instants : t > now /\ now' = t
        /\ UNCHANGED <<inflight, store, snapshots, minted, response>>

-----------------------------------------------------------------------------
(* VehiclesService *)

\* VehiclesService.create
VehiclesService_create(minTemp, maxTemp) ==
  /\ Stored < MaxStored
  /\ vehicle' = vehicle \cup
       {[visibleId |-> Id("vehicle", minted["vehicle"] + 1),
         min_temp |-> minTemp, max_temp |-> maxTemp, last_update |-> now]}
  /\ minted' = Mint("vehicle")
  /\ UNCHANGED <<inflight, now, sensorReading, alert, trip, tripReading, tripAlert,
                 snapshots, response>>

\* VehiclesService.delete
VehiclesService_delete(vehicleId) ==
  /\ findUnique(vehicle, vehicleId) # null
  /\ vehicle' = {v \in vehicle : v.visibleId # vehicleId}
  /\ UNCHANGED <<inflight, now, sensorReading, alert, trip, tripReading, tripAlert,
                 snapshots, minted, response>>

-----------------------------------------------------------------------------
(* SeedService: the only writers of sensor readings, alerts, trip readings and
   trip alerts in this repository *)

\* SeedService.seedSensorReadings: one sensorReading.create
seedSensorReading(vehicleId, temperature, latitude, ageHours) ==
  /\ Stored < MaxStored
  /\ findUnique(vehicle, vehicleId) # null
  /\ sensorReading' = sensorReading \cup
       {[id |-> Id("sensor", minted["sensor"] + 1), vehicle_id |-> vehicleId,
         temperature |-> temperature, latitude |-> latitude, longitude |-> 0,
         timestamp |-> now - ageHours * 60 * TicksPerMinute]}
  /\ minted' = Mint("sensor")
  /\ UNCHANGED <<inflight, now, vehicle, alert, trip, tripReading, tripAlert,
                 snapshots, response>>

\* SeedService.seedAlerts: one alert.create
seedAlert(vehicleId, severity, ageHours) ==
  /\ Stored < MaxStored
  /\ findUnique(vehicle, vehicleId) # null
  /\ alert' = alert \cup
       {[visibleId |-> Id("alert", minted["alert"] + 1), vehicle_id |-> vehicleId,
         severity |-> severity, is_resolved |-> FALSE,
         created_at |-> now - ageHours * 60 * TicksPerMinute]}
  /\ minted' = Mint("alert")
  /\ UNCHANGED <<inflight, now, vehicle, sensorReading, trip, tripReading, tripAlert,
                 snapshots, response>>

\* SeedService.seedTrips: one tripReading.create
seedTripReading(tripId, temperature, age) ==
  /\ Stored < MaxStored
  /\ \E t \in trip : /\ t.visibleId = tripId
                     /\ t.status \in {"active", "completed", "failed"}
                     /\ tripReading' = tripReading \cup
                          {[id |-> Id("trip-reading", minted["trip-reading"] + 1),
                            trip_id |-> tripId, vehicle_id |-> t.vehicle_id,
                            temperature |-> temperature,
                            timestamp |-> now - age * 15 * TicksPerMinute]}
  /\ minted' = Mint("trip-reading")
  /\ UNCHANGED <<inflight, now, vehicle, sensorReading, alert, trip, tripAlert,
                 snapshots, response>>

\* SeedService.seedTrips: one tripAlert.create
seedTripAlert(tripId) ==
  /\ Stored < MaxStored
  /\ findUnique(trip, tripId) # null
  /\ tripAlert' = tripAlert \cup
       {[visibleId |-> Id("trip-alert", minted["trip-alert"] + 1),
         trip_id |-> tripId, is_resolved |-> FALSE, created_at |-> now]}
  /\ minted' = Mint("trip-alert")
  /\ UNCHANGED <<inflight, now, vehicle, sensorReading, alert, trip, tripReading,
                 snapshots, response>>

-----------------------------------------------------------------------------
(* AlertsService *)

\* AlertsService.resolve
AlertsService_resolve(alertId) ==
  /\ \E a \in alert : /\ a.visibleId = alertId
                      /\ alert' = (alert \ {a}) \cup {[a EXCEPT !.is_resolved = TRUE]}
  /\ UNCHANGED <<inflight, now, vehicle, sensorReading, trip, tripReading, tripAlert,
                 snapshots, minted, response>>

-----------------------------------------------------------------------------
(* TripsService *)

\* calculateTripStats: avg_temp_recorded (null without readings) and is_compliant
calculateTripStats(tripId) ==
  LET temps == Temperatures({r \in tripReading : r.trip_id = tripId})
      alerts == {a \in tripAlert : a.trip_id = tripId /\ ~a.is_resolved}
  IN [avg_temp_recorded |-> IF Len(temps) = 0 THEN null
                             ELSE <<SumSeq(temps), Len(temps)>>,
      is_compliant |-> Cardinality(alerts) = 0]

\* TripsService.create
TripsService_create(vehicleId, plannedEnd) ==
  /\ Stored < MaxStored
  /\ findUnique(vehicle, vehicleId) # null
  /\ trip' = trip \cup
       {[visibleId |-> Id("trip", minted["trip"] + 1), vehicle_id |-> vehicleId,
         status |-> "planned", planned_end |-> plannedEnd,
         actual_start |-> null, actual_end |-> null,
         avg_temp_recorded |-> null]}
  /\ minted' = Mint("trip")
  /\ UNCHANGED <<inflight, now, vehicle, sensorReading, alert, tripReading, tripAlert,
                 snapshots, response>>

\* TripsService.update; dto.status and dto.planned_end are null (undefined in
\* the request) or <<value>>; the other fields of the dto are not read by the
\* scoring operations
TripsService_update(tripId, status, plannedEnd) ==
  LET found == findUnique(trip, tripId)
  IN /\ IF found = null
          THEN /\ response' = Response("TripsService.update", tripId, "NotFound", 0, 1, null)
               /\ UNCHANGED trip
        ELSE LET t == found[1]
                 updatedTrip ==
                   [t EXCEPT !.planned_end = IF plannedEnd = null THEN @ ELSE plannedEnd[1],
                             !.status = IF status = null THEN @ ELSE status[1]]
                 stats == calculateTripStats(tripId)
             IN /\ trip' = (trip \ {t}) \cup {updatedTrip}
                /\ response' = Response("TripsService.update", tripId, "ok", 0, 4,
                     <<[status |-> updatedTrip.status,
                        planned_end |-> updatedTrip.planned_end,
                        actual_start |-> updatedTrip.actual_start,
                        actual_end |-> updatedTrip.actual_end,
                        avg_temp_recorded |-> stats.avg_temp_recorded,
                        is_compliant |-> stats.is_compliant]>>)
     /\ UNCHANGED <<inflight, now, vehicle, sensorReading, alert, tripReading, tripAlert,
                    snapshots, minted>>

\* TripsService.start
TripsService_start(tripId) ==
  LET found == findUnique(trip, tripId)
  IN /\ IF found = null
          THEN /\ response' = Response("TripsService.start", tripId, "NotFound", 0, 1, null)
               /\ UNCHANGED trip
        ELSE IF found[1].status # "planned"
          THEN /\ response' = Response("TripsService.start", tripId, "BadRequest", 0, 1, null)
               /\ UNCHANGED trip
        ELSE /\ trip' = (trip \ {found[1]}) \cup
                  {[found[1] EXCEPT !.status = "active", !.actual_start = <<now>>]}
             /\ response' = Response("TripsService.start", tripId, "ok", 0, 2,
                                     <<[actual_start |-> now]>>)
     /\ UNCHANGED <<inflight, now, vehicle, sensorReading, alert, tripReading, tripAlert,
                    snapshots, minted>>

\* TripsService.complete accepting every trip that has not ended
TripsService_completeUnstarted(tripId) ==
  LET found == findUnique(trip, tripId)
  IN /\ IF found = null
          THEN /\ response' = Response("TripsService.complete", tripId, "NotFound", 0, 1, null)
               /\ UNCHANGED trip
        ELSE IF found[1].status \in {"completed", "failed"}
          THEN /\ response' = Response("TripsService.complete", tripId, "BadRequest", 0, 1, null)
               /\ UNCHANGED trip
        ELSE LET stats == calculateTripStats(tripId)
             IN /\ trip' = (trip \ {found[1]}) \cup
                     {[found[1] EXCEPT
                         !.status = IF stats.is_compliant THEN "completed" ELSE "failed",
                         !.actual_end = <<now>>,
                         !.avg_temp_recorded = stats.avg_temp_recorded]}
                /\ response' = Response("TripsService.complete", tripId, "ok", 0, 4,
                     <<[actual_end |-> now, is_compliant |-> stats.is_compliant]>>)
     /\ UNCHANGED <<inflight, now, vehicle, sensorReading, alert, tripReading, tripAlert,
                    snapshots, minted>>

\* TripsService.complete
TripsService_complete(tripId) ==
  LET found == findUnique(trip, tripId)
  IN /\ IF found = null
          THEN /\ response' = Response("TripsService.complete", tripId, "NotFound", 0, 1, null)
               /\ UNCHANGED trip
        ELSE IF found[1].status # "active"
          THEN /\ response' = Response("TripsService.complete", tripId, "BadRequest", 0, 1, null)
               /\ UNCHANGED trip
        ELSE LET stats == calculateTripStats(tripId)
             IN /\ trip' = (trip \ {found[1]}) \cup
                     {[found[1] EXCEPT
                         !.status = IF stats.is_compliant THEN "completed" ELSE "failed",
                         !.actual_end = <<now>>,
                         !.avg_temp_recorded = stats.avg_temp_recorded]}
                /\ response' = Response("TripsService.complete", tripId, "ok", 0, 4,
                     <<[actual_end |-> now, is_compliant |-> stats.is_compliant]>>)
     /\ UNCHANGED <<inflight, now, vehicle, sensorReading, alert, tripReading, tripAlert,
                    snapshots, minted>>

\* TripsService.delete: the trip with its readings and alerts
TripsService_delete(tripId) ==
  LET found == findUnique(trip, tripId)
  IN /\ IF found = null
          THEN /\ response' = Response("TripsService.delete", tripId, "NotFound", 0, 1, null)
               /\ UNCHANGED <<trip, tripReading, tripAlert>>
        ELSE /\ tripReading' = {r \in tripReading : r.trip_id # tripId}
             /\ tripAlert' = {a \in tripAlert : a.trip_id # tripId}
             /\ trip' = trip \ {found[1]}
             /\ response' = Response("TripsService.delete", tripId, "ok", 0, 4,
                                     <<[message |-> "Trip deleted"]>>)
     /\ UNCHANGED <<inflight, now, vehicle, sensorReading, alert, snapshots, minted>>

-----------------------------------------------------------------------------
(* The system *)

NoResponse == Response("none", Id("none", 0), "none", 0, 0, null)

Init ==
  /\ now = 0
  /\ vehicle = {}
  /\ sensorReading = {}
  /\ alert = {}
  /\ trip = {}
  /\ tripReading = {}
  /\ tripAlert = {}
  /\ vehicleRiskSnapshot = <<>>
  /\ tripRiskSnapshot = <<>>
  /\ minted = [k \in Kinds |-> 0]
  /\ response = NoResponse
  /\ inflight = <<>>

CreateVehicle == \E r \in TempRanges : VehiclesService_create(r[1], r[2])
DeleteVehicle == \E id \in VehicleIds : VehiclesService_delete(id)
SeedSensorReading ==
  \E id \in VehicleIds, temp \in Temps, lat \in Latitudes, age \in SeedAgesHours :
    seedSensorReading(id, temp, lat, age)
SeedAlert ==
  \E id \in VehicleIds, sev \in Severities, age \in SeedAgesHours :
    seedAlert(id, sev, age)
ResolveAlert == \E a \in alert : AlertsService_resolve(a.visibleId)
CreateTrip ==
  \E id \in VehicleIds, pe \in PlannedEnds : TripsService_create(id, pe)
UpdateTrip ==
  \E id \in TripIds, st \in UpdatedStatuses, pe \in UpdatedPlannedEnds :
    TripsService_update(id, st, pe)
StartTrip == \E id \in TripIds : TripsService_start(id)
DeleteTrip == \E id \in TripIds : TripsService_delete(id)
CompleteTrip == \E id \in TripIds : TripsService_complete(id)
SeedTripReading ==
  \E id \in TripIds, temp \in Temps, age \in TripReadingAges :
    seedTripReading(id, temp, age)
SeedTripAlert == \E id \in TripIds : seedTripAlert(id)
\* in the running system the data store answers every read
GetVehicleRiskScore == \E id \in VehicleIds : getVehicleRiskScore(id, 0)
GetTripRiskForecast == \E id \in TripIds : getTripRiskForecast(id, 0)

Next ==
  \/ Tick
  \/ CreateVehicle
  \/ DeleteVehicle
  \/ SeedSensorReading
  \/ SeedAlert
  \/ ResolveAlert
  \/ CreateTrip
  \/ StartTrip
  \/ CompleteTrip
  \/ SeedTripReading
  \/ SeedTripAlert
  \/ GetVehicleRiskScore
  \/ GetTripRiskForecast

Spec == Init /\ [][Next]_vars

-----------------------------------------------------------------------------
(* Scoring over stored data: the data store holds one of a family of data
   sets (whatever its writers left there) and answers, or fails to answer,
   the reads of the two scoring operations. *)

TheVehicle == Id("vehicle", 1)
OtherVehicle == Id("vehicle", 2)
TheTrip == Id("trip", 1)

\* one sensor reading to store: whose it is, where, how warm, how long ago (ticks)
Gps(vehicleId, latitude, temperature, age) ==
  [vehicle_id |-> vehicleId, latitude |-> latitude,
   temperature |-> temperature, age |-> age]

\* sensor readings in insertion order
Tracks ==
  { <<>>,
    <<Gps(TheVehicle, 0, -20, 10)>>,
    <<Gps(TheVehicle, 0, -20, 10), Gps(TheVehicle, 4, -19, 5)>>,
    <<Gps(TheVehicle, 0, -20, 10), Gps(TheVehicle, 2000, -12, 5)>>,
    <<Gps(TheVehicle, 3000, -20, 5), Gps(TheVehicle, 0, -14, 10)>>,
    <<Gps(TheVehicle, 0, -20, 10), Gps(TheVehicle, 5000, -8, 5)>>,
    <<Gps(TheVehicle, 0, -20, 800), Gps(TheVehicle, 5000, -20, 5)>>,
    <<Gps(TheVehicle, 0, -20, 10), Gps(OtherVehicle, 5000, -20, 5)>>,
    <<Gps(TheVehicle, 0, -20, 10), Gps(TheVehicle, 0, -20, 5),
      Gps(TheVehicle, 3000, -20, 7)>>,
    [i \in 1..11 |-> Gps(TheVehicle, 0, -20, 60 - 5 * i)],
    [i \in 1..11 |-> Gps(TheVehicle, IF i > 6 THEN 4 ELSE 0, -20, 60 - 5 * i)],
    [i \in 1..10 |-> Gps(TheVehicle, 0, -20, 60 - 5 * i)],
    [i \in 1..11 |-> Gps(TheVehicle, 1000 * (i % 2), -20, 60 - 5 * i)] }

SensorReadingsOf(track, at) ==
  {[id |-> Id("sensor", i), vehicle_id |-> track[i].vehicle_id,
    temperature |-> track[i].temperature, latitude |-> track[i].latitude,
    longitude |-> 0, timestamp |-> at - track[i].age] : i \in 1..Len(track)}

\* one alert to store
Raised(vehicleId, severity, isResolved, age) ==
  [vehicle_id |-> vehicleId, severity |-> severity,
   is_resolved |-> isResolved, age |-> age]

AlertLogs ==
  { <<>>,
    <<Raised(TheVehicle, "info", FALSE, 10)>>,
    <<Raised(TheVehicle, "warning", TRUE, 10)>>,
    <<Raised(TheVehicle, "critical", FALSE, 2879)>>,
    <<Raised(TheVehicle, "critical", FALSE, 2881)>>,
    <<Raised(OtherVehicle, "critical", FALSE, 10)>>,
    <<Raised(TheVehicle, "critical", FALSE, 10), Raised(TheVehicle, "critical", TRUE, 20),
      Raised(TheVehicle, "warning", FALSE, 30)>>,
    [i \in 1..5 |-> Raised(TheVehicle, "critical", i % 2 = 0, 10 * i)],
    [i \in 1..10 |-> Raised(TheVehicle, "critical", FALSE, 10 * i)],
    [i \in 1..10 |-> Raised(TheVehicle, "warning", FALSE, 10 * i)] }

AlertsOf(log, at) ==
  {[visibleId |-> Id("alert", i), vehicle_id |-> log[i].vehicle_id,
    severity |-> log[i].severity, is_resolved |-> log[i].is_resolved,
    created_at |-> at - log[i].age] : i \in 1..Len(log)}

\* ticks since the vehicle's last_update
UpdateGaps == {0, 10, 11, 30, 31, 60, 61, 118, 120, 121, 122}

VehicleOf(range, at, gap) ==
  [visibleId |-> TheVehicle, min_temp |-> range[1], max_temp |-> range[2],
   last_update |-> at - gap]

\* a trip's status and its times relative to the clock:
\* <<status, now - planned_end, actual_end - planned_end or null>>
TripShapes ==
  { <<"planned", -100, null>>,
    <<"planned", 250, null>>,
    <<"active", -100, null>>,
    <<"active", 0, null>>,
    <<"active", 1, null>>,
    <<"active", 20, null>>,
    <<"active", 21, null>>,
    <<"active", 60, null>>,
    <<"active", 61, null>>,
    <<"active", 120, null>>,
    <<"active", 121, null>>,
    <<"active", 240, null>>,
    <<"active", 241, null>>,
    <<"completed", 500, <<0>>>>,
    <<"completed", 500, <<-20>>>>,
    <<"completed", 500, <<61>>>>,
    <<"failed", 500, <<241>>>>,
    <<"failed", 500, <<20>>>> }

\* avg_temp_recorded: null or the fraction <<sum, count>>
Averages ==
  { null, <<-20, 1>>, <<-49, 2>>, <<-15, 1>>, <<-59, 4>>, <<-27, 1>>,
    <<-36, 3>>, <<-20, 2>>, <<-8, 1>>, <<5, 1>>, <<31, 3>>,
    <<-24, 1>>, <<-29, 2>>, <<-25, 2>>, <<-41, 2>>, <<-26, 1>> }

TripOf(shape, at, avg) ==
  LET plannedEnd == at - shape[2]
  IN [visibleId |-> TheTrip, vehicle_id |-> TheVehicle, status |-> shape[1],
      planned_end |-> plannedEnd,
      actual_start |-> IF shape[1] = "planned" THEN null ELSE <<plannedEnd - 600>>,
      actual_end |-> IF shape[3] = null THEN null ELSE <<plannedEnd + shape[3][1]>>,
      avg_temp_recorded |-> avg]

\* trip alerts stored: <<unresolved, resolved, of another trip>>
ViolationCounts == {<<0, 0, 0>>, <<0, 0, 1>>, <<1, 0, 0>>, <<0, 1, 0>>,
                    <<2, 1, 1>>, <<5, 0, 0>>, <<3, 6, 0>>}

TripAlertsOf(counts, at) ==
  {[visibleId |-> Id("trip-alert", i),
    trip_id |-> IF i > counts[1] + counts[2] THEN Id("trip", 2) ELSE TheTrip,
    is_resolved |-> (i > counts[1] /\ i <= counts[1] + counts[2]),
    created_at |-> at - i] : i \in 1..(counts[1] + counts[2] + counts[3])}

\* one trip reading to store: how warm, how long ago (ticks)
Sample(temperature, age) ==
  [temperature |-> temperature, age |-> age, trip_id |-> TheTrip]

\* a reading of another trip
SampleOfOther(temperature, age) ==
  [temperature |-> temperature, age |-> age, trip_id |-> Id("trip", 2)]

\* trip readings in insertion order
TripLogs ==
  { <<>>,
    <<Sample(-20, 30)>>,
    <<Sample(-20, 60), Sample(-17, 30)>>,
    <<Sample(-20, 60), Sample(-16, 30)>>,
    <<Sample(-20, 60), Sample(-10, 30)>>,
    <<Sample(-9, 30), Sample(-20, 60)>>,
    <<Sample(-20, 60), Sample(-20, 20), Sample(-4, 40)>>,
    <<Sample(-20, 60), SampleOfOther(-4, 40), Sample(-20, 20)>>,
    [i \in 1..4 |-> Sample(-20 + 11 * (i % 2), 300 - 30 * i)],
    [i \in 1..6 |-> Sample(-20 + 4 * (i % 2), 300 - 30 * i)],
    [i \in 1..7 |-> Sample(-20 + 4 * (i % 2), 300 - 30 * i)],
    [i \in 1..7 |-> Sample(-20 + 11 * (i % 2), 300 - 30 * i)],
    [i \in 1..11 |-> Sample(-20 + 4 * (i % 2), 600 - 30 * i)],
    [i \in 1..12 |-> Sample(-20 + 4 * (i % 2), 600 - 30 * i)],
    [i \in 1..12 |-> Sample(-20 + 11 * (i % 2), 600 - 30 * i)] }

TripReadingsOf(log, at) ==
  {[id |-> Id("trip-reading", i), trip_id |-> log[i].trip_id, vehicle_id |-> TheVehicle,
    temperature |-> log[i].temperature, timestamp |-> at - log[i].age]
     : i \in 1..Len(log)}

\* a data set that exercises the vehicle-scoped factors
VehicleScenario ==
  \E gap \in UpdateGaps, track \in Tracks, log \in AlertLogs :
    /\ vehicle = {VehicleOf(<<-25, -15>>, now, gap)}
    /\ sensorReading = SensorReadingsOf(track, now)
    /\ alert = AlertsOf(log, now)
    /\ trip = {}
    /\ tripReading = {}
    /\ tripAlert = {}
    /\ minted = [k \in Kinds |->
                   IF k = "vehicle" THEN 1
                   ELSE IF k = "sensor" THEN Len(track)
                   ELSE IF k = "alert" THEN Len(log)
                   ELSE 0]

\* the vehicle of the trip: gone (null) or present with an acceptable range
Owners == {null} \cup {<<r>> : r \in TempRanges}

\* data sets that exercise the trip-scoped factors: each factor's inputs are
\* varied against a quiet rest, and quiet and extreme inputs are combined
TripProfiles ==
  LET quietOwner == <<(<<-25, -15>>)>>
      quietShape == <<"planned", -100, null>>
      quietAvg == <<-20, 1>>
      quietCounts == <<0, 0, 0>>
      quietLog == <<>>
  IN {<<o, quietShape, a, quietCounts, quietLog>> : o \in Owners, a \in Averages}
     \cup {<<quietOwner, sh, quietAvg, quietCounts, quietLog>> : sh \in TripShapes}
     \cup {<<quietOwner, quietShape, quietAvg, c, quietLog>> : c \in ViolationCounts}
     \cup {<<quietOwner, quietShape, quietAvg, quietCounts, l>> : l \in TripLogs}
     \cup ({null, quietOwner}
           \X {quietShape, <<"active", 241, null>>, <<"completed", 500, <<61>>>>}
           \X {null, quietAvg, <<-36, 3>>, <<-8, 1>>}
           \X {quietCounts, <<2, 1, 1>>, <<5, 0, 0>>}
           \X {quietLog, <<Sample(-20, 60), Sample(-9, 30)>>,
               [i \in 1..12 |-> Sample(-20 + 11 * (i % 2), 600 - 30 * i)]})
     \cup {<<quietOwner, <<"active", 41, null>>, <<-8, 1>>, <<5, 0, 0>>,
             [i \in 1..4 |-> Sample(-20 + 4 * (i % 2), 300 - 30 * i)]>>}

TripScenario ==
  \E profile \in TripProfiles :
    LET owner == profile[1]
        counts == profile[4]
        log == profile[5]
    IN /\ vehicle = IF owner = null THEN {} ELSE {VehicleOf(owner[1], now, 0)}
       /\ sensorReading = {}
       /\ alert = {}
       /\ trip = {TripOf(profile[2], now, profile[3])}
       /\ tripReading = TripReadingsOf(log, now)
       /\ tripAlert = TripAlertsOf(counts, now)
       /\ minted = [k \in Kinds |->
                      IF k \in {"vehicle", "trip"} THEN 1
                      ELSE IF k = "trip-reading" THEN Len(log)
                      ELSE IF k = "trip-alert" THEN counts[1] + counts[2] + counts[3]
                      ELSE 0]

ScoringInit ==
  /\ now = 3000
  /\ VehicleScenario \/ TripScenario
  /\ vehicleRiskSnapshot = <<>>
  /\ tripRiskSnapshot = <<>>
  /\ response = NoResponse
  /\ inflight = <<>>

\* a scoring call whose reads the data store may fail to answer
ScoreVehicle ==
  \E id \in VehicleIds, failing \in 0..Len(VehicleScoreReads) :
    getVehicleRiskScore(id, failing)
ForecastTrip ==
  \E id \in TripIds, failing \in 0..Len(TripForecastReads) :
    getTripRiskForecast(id, failing)

ScoringNext == ScoreVehicle \/ ForecastTrip

ScoringSpec == ScoringInit /\ [][ScoringNext]_vars

-----------------------------------------------------------------------------
(* Concurrent scoring calls: a call runs the awaits of its operation one at a
   time, and other calls run between them.  The stored data are one of a
   family of data sets with two vehicles and one trip. *)

\* scoring calls running at the same time
ConcurrentCalls == 2

Callers == 1..ConcurrentCalls

\* the local variables of a call before its first await: `pc` counts the
\* awaits completed, `overlapped` records that another call was in progress
\* while this one made a step
Call(op, id) ==
  [op |-> op, id |-> id, pc |-> 0, status |-> "running", found |-> null,
   unresolved |-> 0, delayMinutes |-> 0, factors |-> <<>>,
   overlapped |-> FALSE, result |-> null]

ReadsOf(op) ==
  IF op = "getVehicleRiskScore" THEN VehicleScoreReads ELSE TripForecastReads

\* the per-call accumulators kept in one place shared by all calls
AccumulatedShared(c, factor) ==
  LET q == CHOOSE q \in DOMAIN inflight :
             \A r \in DOMAIN inflight :
               Len(inflight[q].factors) >= Len(inflight[r].factors)
  IN Append(inflight[q].factors, factor)

\* `totalScore += result.score; if (result.reason) reasons.push(result.reason)`
\* on the local `totalScore` and `reasons` of call c
Accumulated(c, factor) == Append(c.factors, factor)

\* the next await of getVehicleRiskScore, with the code up to the await after it
VehicleAwait(c) ==
  IF c.pc = 0
    THEN LET found == findUnique(vehicle, c.id)
         IN IF found = null THEN [c EXCEPT !.pc = 1, !.status = "NotFound"]
            ELSE [c EXCEPT !.pc = 1, !.found = found]
  ELSE IF c.pc = 1
    THEN [c EXCEPT !.pc = 2, !.factors = Accumulated(c, calculateTempVariance(c.id))]
  ELSE IF c.pc = 2
    THEN LET counted == [c EXCEPT !.factors =
                           Accumulated(c, calculateAlertFactor(c.id))]
         IN [counted EXCEPT !.pc = 3,
               !.factors = Accumulated(counted,
                             calculateUpdateGap(c.found[1].last_update))]
  ELSE [c EXCEPT !.pc = 4, !.factors = Accumulated(c, calculateDistanceFactor(c.id))]

\* the next await of getTripRiskForecast, with the code up to the await after it
TripAwait(c) ==
  IF c.pc = 0
    THEN LET found == findUnique(trip, c.id)
         IN IF found = null THEN [c EXCEPT !.pc = 1, !.status = "NotFound"]
            ELSE [c EXCEPT !.pc = 1, !.found = found]
  ELSE IF c.pc = 1
    THEN LET range == AcceptableRange(findUnique(vehicle, c.found[1].vehicle_id))
         IN [c EXCEPT !.pc = 2,
               !.factors = Accumulated(c, calculateTempDeviation(
                             c.found[1].avg_temp_recorded, range[1], range[2]))]
  ELSE IF c.pc = 2
    THEN [c EXCEPT !.pc = 3,
            !.unresolved = Cardinality({a \in tripAlert :
                             a.trip_id = c.id /\ ~a.is_resolved})]
  ELSE IF c.pc = 3
    THEN LET totalAlerts == Cardinality({a \in tripAlert : a.trip_id = c.id})
             t == c.found[1]
             delayResult == calculateDelayFactor(t.planned_end, t.actual_end, t.status)
             counted == [c EXCEPT !.factors =
                           Accumulated(c, ViolationFactorOf(c.unresolved, totalAlerts))]
         IN [counted EXCEPT !.pc = 4, !.delayMinutes = delayResult.delayMinutes,
               !.factors = Accumulated(counted,
                             Factor(delayResult.score, delayResult.reason))]
  ELSE [c EXCEPT !.pc = 5, !.factors = Accumulated(c, calculateTempSpikes(c.id))]

\* another call is between its first await and its return
OthersRunning(p) ==
  \E q \in DOMAIN inflight :
    q # p /\ inflight[q].status = "running" /\ inflight[q].pc > 0

\* call p completes its next data-store read
Await(p) ==
  LET c == inflight[p]
      next == IF c.op = "getVehicleRiskScore" THEN VehicleAwait(c) ELSE TripAwait(c)
  IN /\ c.status = "running"
     /\ c.pc < Len(ReadsOf(c.op))
     /\ inflight' = [inflight EXCEPT ![p] =
                       [next EXCEPT !.overlapped = c.overlapped \/ OthersRunning(p)]]
     /\ UNCHANGED <<now, store, snapshots, minted, response>>

\* call p sums up, writes its snapshot and returns
WriteSnapshot(p) ==
  LET c == inflight[p]
      score == FinalScore(c.factors)
      level == scoreToLevel(score)
      done == [c EXCEPT !.pc = @ + 1, !.status = "ok",
                        !.overlapped = c.overlapped \/ OthersRunning(p)]
  IN /\ c.status = "running"
     /\ c.pc = Len(ReadsOf(c.op))
     /\ IF c.op = "getVehicleRiskScore"
          THEN LET reasons == WithDefaultReason(CollectReasons(c.factors),
                                "All vehicle metrics are within normal range")
               IN /\ vehicleRiskSnapshot' =
                       storeVehicleRiskSnapshot(c.id, score, level, reasons)
                  /\ minted' = Mint("vehicle-risk")
                  /\ inflight' = [inflight EXCEPT ![p] = [done EXCEPT !.result =
                       <<[score |-> score, level |-> level, reasons |-> reasons]>>]]
                  /\ UNCHANGED tripRiskSnapshot
        ELSE LET reasons == WithDefaultReason(CollectReasons(c.factors),
                              "All trip metrics are within normal range")
                 predictedEta == PredictedEta(c.found[1], c.delayMinutes)
             IN /\ tripRiskSnapshot' =
                     storeTripRiskSnapshot(c.id, score, level, predictedEta, c.delayMinutes)
                /\ minted' = Mint("trip-risk")
                /\ inflight' = [inflight EXCEPT ![p] = [done EXCEPT !.result =
                     <<[score |-> score, level |-> level, reasons |-> reasons,
                        predicted_eta |-> predictedEta,
                        expected_delay_minutes |-> c.delayMinutes]>>]]
                /\ UNCHANGED vehicleRiskSnapshot
     /\ UNCHANGED <<now, store, response>>

\* the calls that may be made: on each vehicle, on an unknown id, on the trip
Subjects ==
  { <<"getVehicleRiskScore", TheVehicle>>, <<"getVehicleRiskScore", OtherVehicle>>,
    <<"getVehicleRiskScore", Id("vehicle", 3)>>, <<"getTripRiskForecast", TheTrip>> }

\* data sets with two vehicles and a trip of the first
ConcurrentData ==
  \E gap \in {0, 31, 121},
     track \in { <<>>,
                 <<Gps(TheVehicle, 0, -20, 10), Gps(OtherVehicle, 5000, -20, 5)>>,
                 <<Gps(TheVehicle, 0, -20, 10), Gps(TheVehicle, 5000, -8, 5)>> },
     log \in { <<Raised(OtherVehicle, "critical", FALSE, 10)>>,
               <<Raised(TheVehicle, "critical", FALSE, 10),
                 Raised(TheVehicle, "critical", TRUE, 20),
                 Raised(TheVehicle, "warning", FALSE, 30)>> },
     profile \in { <<(<<"planned", -100, null>>), (<<-20, 1>>), (<<0, 0, 0>>), <<>>>>,
                   <<(<<"active", 41, null>>), (<<-8, 1>>), (<<2, 1, 1>>),
                     <<Sample(-20, 60), Sample(-9, 30)>>>>,
                   <<(<<"completed", 500, <<61>>>>), null, (<<0, 1, 0>>),
                     <<Sample(-20, 60), Sample(-16, 30)>>>> } :
    /\ vehicle = { VehicleOf(<<-25, -15>>, now, gap),
                   [VehicleOf(<<2, 8>>, now, 61) EXCEPT !.visibleId = OtherVehicle] }
    /\ sensorReading = SensorReadingsOf(track, now)
    /\ alert = AlertsOf(log, now)
    /\ trip = {TripOf(profile[1], now, profile[2])}
    /\ tripReading = TripReadingsOf(profile[4], now)
    /\ tripAlert = TripAlertsOf(profile[3], now)
    /\ minted = [k \in Kinds |->
                   IF k = "vehicle" THEN 2
                   ELSE IF k = "trip" THEN 1
                   ELSE IF k = "sensor" THEN Len(track)
                   ELSE IF k = "alert" THEN Len(log)
                   ELSE IF k = "trip-reading" THEN Len(profile[4])
                   ELSE IF k = "trip-alert"
                     THEN profile[3][1] + profile[3][2] + profile[3][3]
                   ELSE 0]

\* the calls are on different subjects
ConcurrentInit ==
  /\ now = 3000
  /\ ConcurrentData
  /\ vehicleRiskSnapshot = <<>>
  /\ tripRiskSnapshot = <<>>
  /\ response = NoResponse
  /\ \E subject \in [Callers -> Subjects] :
       /\ \A p, q \in Callers : p # q => subject[p] # subject[q]
       /\ inflight = [p \in Callers |-> Call(subject[p][1], subject[p][2])]

AwaitRead == \E p \in Callers : Await(p)
ReturnScore == \E p \in Callers : WriteSnapshot(p)

ConcurrentNext == AwaitRead \/ ReturnScore

ConcurrentSpec == ConcurrentInit /\ [][ConcurrentNext]_vars

-----------------------------------------------------------------------------
(* The Temperature Variance Factor over the readings its query returns: the
   sensor readings stored are the documents matched by the aggregation. *)

\* readings matched by the aggregation
MaxReadings == 3

VarianceTemps == -26..-13

VarianceInit ==
  /\ now = 3000
  /\ \E n \in 0..MaxReadings : \E temps \in [1..n -> VarianceTemps] :
       /\ sensorReading =
            SensorReadingsOf([i \in 1..n |-> Gps(TheVehicle, 0, temps[i], 10 * i)], now)
       /\ minted = [k \in Kinds |->
                      IF k = "vehicle" THEN 1 ELSE IF k = "sensor" THEN n ELSE 0]
  /\ vehicle = {VehicleOf(<<-25, -15>>, now, 0)}
  /\ alert = {}
  /\ trip = {}
  /\ tripReading = {}
  /\ tripAlert = {}
  /\ vehicleRiskSnapshot = <<>>
  /\ tripRiskSnapshot = <<>>
  /\ response = NoResponse
  /\ inflight = <<>>

\* the part of calculateTempVariance that follows the aggregation
ScoreVariance ==
  /\ response = NoResponse
  /\ response' = Response("calculateTempVariance", TheVehicle, "ok", 0, 1,
                          <<TempVarianceOf(GroupStats(sensorReading))>>)
  /\ UNCHANGED <<inflight, now, store, snapshots, minted>>

VarianceNext == ScoreVariance

VarianceSpec == VarianceInit /\ [][VarianceNext]_vars

-----------------------------------------------------------------------------
(* The Temperature Deviation Factor of two trips of one vehicle: the recorded
   averages of the trips are multiples of 1 / AveragePrecision degrees, from
   MaxDeviation degrees below the acceptable range to MaxDeviation above. *)

\* how far outside the range a recorded average lies, in degrees
MaxDeviation == 7

\* recorded averages are multiples of 1 / AveragePrecision
AveragePrecision == 4

RecordedAverages(range) ==
  {<<n, AveragePrecision>> :
     n \in ((range[1] - MaxDeviation) * AveragePrecision)
             ..((range[2] + MaxDeviation) * AveragePrecision)}

DeviationInit ==
  /\ now = 3000
  /\ \E range \in TempRanges :
       /\ vehicle = {VehicleOf(range, now, 0)}
       /\ \E a \in RecordedAverages(range), b \in RecordedAverages(range) :
            trip = { TripOf(<<"planned", -100, null>>, now, a),
                     [TripOf(<<"planned", -100, null>>, now, b)
                        EXCEPT !.visibleId = Id("trip", 2)] }
  /\ sensorReading = {}
  /\ alert = {}
  /\ tripReading = {}
  /\ tripAlert = {}
  /\ vehicleRiskSnapshot = <<>>
  /\ tripRiskSnapshot = <<>>
  /\ minted = [k \in Kinds |->
                 IF k = "vehicle" THEN 1 ELSE IF k = "trip" THEN 2 ELSE 0]
  /\ response = NoResponse
  /\ inflight = <<>>

\* calculateTempDeviation on each of the two trips, as getTripRiskForecast
\* calls it
ScoreDeviations ==
  /\ response = NoResponse
  /\ LET scored(id) ==
           LET t == findUnique(trip, id)[1]
               range == AcceptableRange(findUnique(vehicle, t.vehicle_id))
           IN calculateTempDeviation(t.avg_temp_recorded, range[1], range[2])
     IN response' = Response("calculateTempDeviation", TheVehicle, "ok", 0, 0,
                             <<[first |-> scored(TheTrip),
                                second |-> scored(Id("trip", 2))]>>)
  /\ UNCHANGED <<inflight, now, store, snapshots, minted>>

DeviationNext == ScoreDeviations

DeviationSpec == DeviationInit /\ [][DeviationNext]_vars

-----------------------------------------------------------------------------
(* The trip lifecycle: the operations of TripsService and the seed on the
   trips of one stored vehicle, with forecasts made in between. *)

LifecycleInit ==
  /\ now = 0
  /\ vehicle = {VehicleOf(<<-25, -15>>, 0, 0)}
  /\ sensorReading = {}
  /\ alert = {}
  /\ trip = {}
  /\ tripReading = {}
  /\ tripAlert = {}
  /\ vehicleRiskSnapshot = <<>>
  /\ tripRiskSnapshot = <<>>
  /\ minted = [k \in Kinds |-> IF k = "vehicle" THEN 1 ELSE 0]
  /\ response = NoResponse
  /\ inflight = <<>>

LifecycleNext ==
  \/ Tick
  \/ CreateTrip
  \/ UpdateTrip
  \/ StartTrip
  \/ CompleteTrip
  \/ DeleteTrip
  \/ SeedTripReading
  \/ SeedTripAlert
  \/ GetTripRiskForecast

LifecycleSpec == LifecycleInit /\ [][LifecycleNext]_vars

-----------------------------------------------------------------------------
(* Forecasts racing with writers: the forecasts of one trip run await by
   await while the seed creates trip alerts of the trip and TripsService
   deletes the trip with its alerts.  Every stored trip alert is unresolved,
   and no operation of the repository resolves a trip alert. *)

RacingInit ==
  /\ now = 3000
  /\ vehicle = {VehicleOf(<<-25, -15>>, now, 0)}
  /\ sensorReading = {}
  /\ alert = {}
  /\ \E shape \in {<<"planned", -100, null>>, <<"active", 41, null>>},
        unresolved \in 0..2 :
       /\ trip = {TripOf(shape, now, <<-20, 1>>)}
       /\ tripAlert = TripAlertsOf(<<unresolved, 0, 0>>, now)
       /\ minted = [k \in Kinds |->
                      IF k \in {"vehicle", "trip"} THEN 1
                      ELSE IF k = "trip-alert" THEN unresolved
                      ELSE 0]
  /\ tripReading = {}
  /\ vehicleRiskSnapshot = <<>>
  /\ tripRiskSnapshot = <<>>
  /\ response = NoResponse
  /\ inflight = [p \in Callers |-> Call("getTripRiskForecast", TheTrip)]

RacingNext ==
  \/ AwaitRead
  \/ ReturnScore
  \/ SeedTripAlert
  \/ DeleteTrip

RacingSpec == RacingInit /\ [][RacingNext]_vars

-----------------------------------------------------------------------------
(* Properties of the two scoring operations *)

\* the body of the last successful call
Returned == response.body[1]

\* the risk snapshots of both collections
AllSnapshots ==
  {vehicleRiskSnapshot[i] : i \in 1..Len(vehicleRiskSnapshot)}
    \cup {tripRiskSnapshot[i] : i \in 1..Len(tripRiskSnapshot)}

\* s is an initial segment of t
IsPrefix(s, t) == Len(s) <= Len(t) /\ \A i \in 1..Len(s) : s[i] = t[i]

\* C1: the score a successful call returns, and every score stored in a
\* snapshot, is an integer from 0 to 100.
ScoreInRange ==
  /\ response.status = "ok" => Returned.score \in 0..100
  /\ \A s \in AllSnapshots : s.score \in 0..100

\* a forecast in which every factor is at its cap returned the score 100
ScoreInRangeWitness ==
  /\ response.status = "ok"
  /\ Returned.score = 100
  /\ \E s \in AllSnapshots : s.score = 100

\* the classification of a score, as the thresholds 34 and 67 state it
LevelOfScore(r) ==
  /\ r.level \in {"LOW", "MEDIUM", "HIGH"}
  /\ r.level = "LOW" <=> r.score \in 0..33
  /\ r.level = "MEDIUM" <=> r.score \in 34..66
  /\ r.level = "HIGH" <=> r.score \in 67..100

\* C2: a returned or stored level is LOW exactly for scores up to 33, MEDIUM
\* exactly for scores 34..66 and HIGH exactly for scores 67..100.
LevelMatchesScore ==
  /\ response.status = "ok" => LevelOfScore(Returned)
  /\ \A s \in AllSnapshots : LevelOfScore(s)

\* a snapshot right at the HIGH threshold: score 67
LevelMatchesScoreWitness ==
  \E s \in AllSnapshots : s.score = 67 /\ s.level = "HIGH"

\* the collection an operation looks its subject up in
SubjectsOf(op) == IF op = "getVehicleRiskScore" THEN vehicle ELSE trip

\* C3: a call whose id matches no vehicle (no trip), and whose lookup the
\* data store answered, fails with NotFound, returns nothing and leaves the
\* snapshots as they were; a call fails with NotFound in no other case.
NotFoundOnUnknownId ==
  [][LET unknown == \A d \in SubjectsOf(response'.op) : d.visibleId # response'.id
     IN /\ (unknown /\ response'.failed # 1)
             => /\ response'.status = "NotFound"
                /\ response'.body = null
                /\ snapshots' = snapshots
        /\ response'.status = "NotFound" => unknown]_vars

\* a call failed with NotFound while a snapshot of an earlier call is stored
NotFoundWitness ==
  /\ response.status = "NotFound"
  /\ AllSnapshots # {}

\* C4: a call in which the data store fails to answer a read fails with
\* DataUnavailable, returns no partial result, writes no snapshot and issues
\* no read after the failed one; a call fails so in no other case.
DataUnavailableAborts ==
  [][/\ response'.failed > 0
          => /\ response'.status = "DataUnavailable"
             /\ response'.body = null
             /\ response'.reads = response'.failed
             /\ snapshots' = snapshots
     /\ response'.status = "DataUnavailable" => response'.failed > 0]_vars

\* the last read of a forecast failed while a snapshot is stored
DataUnavailableWitness ==
  /\ response.status = "DataUnavailable"
  /\ response.op = "getTripRiskForecast"
  /\ response.failed = Len(TripForecastReads)
  /\ AllSnapshots # {}

\* `after` is `before` with one snapshot of the call just made appended
Appended(before, after, subject) ==
  /\ Len(after) = Len(before) + 1
  /\ IsPrefix(before, after)
  /\ LET s == after[Len(after)]
     IN /\ \A old \in AllSnapshots : old.visibleId # s.visibleId
        /\ s[subject] = response'.id
        /\ s.score = response'.body[1].score
        /\ s.level = response'.body[1].level
        /\ s.calculated_at = now

\* C5: every successful call appends exactly one snapshot, with a fresh id
\* and the subject, score and level the call returned; no call changes or
\* removes a stored snapshot, and a failed call appends none.
SnapshotsAppendOnly ==
  [][IF response'.status # "ok" THEN snapshots' = snapshots
     ELSE IF response'.op = "getVehicleRiskScore"
       THEN /\ Appended(vehicleRiskSnapshot, vehicleRiskSnapshot', "vehicle_id")
            /\ tripRiskSnapshot' = tripRiskSnapshot
     ELSE /\ Appended(tripRiskSnapshot, tripRiskSnapshot', "trip_id")
          /\ vehicleRiskSnapshot' = vehicleRiskSnapshot]_vars

\* the same vehicle was scored twice: two snapshots of it are stored
SnapshotsAppendOnlyWitness ==
  /\ Len(vehicleRiskSnapshot) = 2
  /\ vehicleRiskSnapshot[1].vehicle_id = vehicleRiskSnapshot[2].vehicle_id
  /\ vehicleRiskSnapshot[1].visibleId # vehicleRiskSnapshot[2].visibleId

\* C6: the trip snapshot a forecast stores retains the ordered reasons the
\* forecast returned, with the trip id, score, level, predicted completion,
\* delay minutes and the time of the calculation.
TripSnapshotRetainsReasons ==
  (response.status = "ok" /\ response.op = "getTripRiskForecast")
    => LET s == tripRiskSnapshot[Len(tripRiskSnapshot)]
       IN /\ s.trip_id = response.id
          /\ s.score = Returned.score
          /\ s.level = Returned.level
          /\ s.predicted_eta = Returned.predicted_eta
          /\ s.expected_delay_minutes = Returned.expected_delay_minutes
          /\ s.calculated_at = now
          /\ "reasons" \in DOMAIN s
          /\ s.reasons = Returned.reasons

\* C7: a scoring call, successful or failed, leaves every vehicle, sensor
\* reading, alert, trip, trip reading and trip alert as it was.
ScoringLeavesDataUnchanged ==
  [][/\ vehicle' = vehicle
     /\ sensorReading' = sensorReading
     /\ alert' = alert
     /\ trip' = trip
     /\ tripReading' = tripReading
     /\ tripAlert' = tripAlert]_vars

\* a vehicle with readings and alerts was scored, then a call on it failed
ScoringLeavesDataUnchangedWitness ==
  /\ response.status = "DataUnavailable"
  /\ response.op = "getVehicleRiskScore"
  /\ Len(vehicleRiskSnapshot) = 1
  /\ sensorReading # {}
  /\ alert # {}

QuietBelow(op, i) ==
  IF op # "getVehicleRiskScore" THEN 0
  ELSE IF i = 1 THEN 8
  ELSE IF i \in {3, 4} THEN 10
  ELSE 0

RECURSIVE ReasonsFrom(_, _)
ReasonsFrom(f, from) ==
  IF from > Len(f) THEN <<>>
  ELSE IF f[from].reason = NoReason THEN ReasonsFrom(f, from + 1)
  ELSE <<f[from].reason>> \o ReasonsFrom(f, from + 1)

DefaultReasonOf(op) ==
  IF op = "getVehicleRiskScore"
    THEN Reason("All vehicle metrics are within normal range", <<>>)
  ELSE Reason("All trip metrics are within normal range", <<>>)

\* C10: the reasons of a result are never empty: they are the reasons of the
\* factors in the order the factors are evaluated; the default reason is
\* among them exactly when no factor gave a reason, and is then the only one.
ReasonsInFactorOrder ==
  response.status = "ok"
    => LET produced == ReasonsFrom(Returned.factors, 1)
           default == DefaultReasonOf(response.op)
           hasDefault == \E k \in 1..Len(Returned.reasons) : Returned.reasons[k] = default
       IN /\ Returned.reasons # <<>>
          /\ produced # <<>> => Returned.reasons = produced
          /\ hasDefault <=> produced = <<>>
          /\ hasDefault => Returned.reasons = <<default>>

\* a forecast of a trip to which no factor gave a reason
ReasonsDefaultWitness ==
  /\ response.status = "ok"
  /\ ReasonsFrom(Returned.factors, 1) = <<>>
  /\ Returned.reasons = <<DefaultReasonOf(response.op)>>

\* what the call c returns when it runs alone over the stored data
Alone(c) ==
  IF c.op = "getVehicleRiskScore"
    THEN IF \E v \in vehicle : v.visibleId = c.id
           THEN LET r == VehicleRisk(CHOOSE v \in vehicle : v.visibleId = c.id)
                IN <<[score |-> r.score, level |-> r.level, reasons |-> r.reasons]>>
         ELSE null
  ELSE IF \E t \in trip : t.visibleId = c.id
         THEN LET r == TripRisk(CHOOSE t \in trip : t.visibleId = c.id)
              IN <<[score |-> r.score, level |-> r.level, reasons |-> r.reasons,
                    predicted_eta |-> r.predicted_eta,
                    expected_delay_minutes |-> r.expected_delay_minutes]>>
       ELSE null

\* the snapshots stored for the subject of call c
SnapshotsFor(c) ==
  IF c.op = "getVehicleRiskScore"
    THEN {i \in 1..Len(vehicleRiskSnapshot) : vehicleRiskSnapshot[i].vehicle_id = c.id}
  ELSE {i \in 1..Len(tripRiskSnapshot) : tripRiskSnapshot[i].trip_id = c.id}

\* C11: however the reads and snapshot writes of concurrent scoring calls on
\* different subjects interleave, each call that has returned returned what
\* it returns when run alone (NotFound for an unknown id), and exactly one
\* snapshot of its score is stored for every call that returned a score.
ConcurrentCallsIndependent ==
  \A p \in DOMAIN inflight :
    LET c == inflight[p]
    IN c.status # "running"
         => /\ c.result = Alone(c)
            /\ c.status = IF Alone(c) = null THEN "NotFound" ELSE "ok"
            /\ Cardinality(SnapshotsFor(c)) = IF c.status = "ok" THEN 1 ELSE 0
            /\ \A i \in SnapshotsFor(c) :
                 LET s == IF c.op = "getVehicleRiskScore"
                            THEN vehicleRiskSnapshot[i] ELSE tripRiskSnapshot[i]
                 IN s.score = c.result[1].score /\ s.level = c.result[1].level

\* a vehicle score and a trip forecast that overlapped have both returned
ConcurrentCallsWitness ==
  /\ inflight # <<>>
  /\ \A p \in DOMAIN inflight :
       inflight[p].status = "ok" /\ inflight[p].overlapped
  /\ Len(vehicleRiskSnapshot) >= 1
  /\ Len(tripRiskSnapshot) = 1

\* C12: a forecast of an existing trip whose vehicle is not stored succeeds,
\* appends its snapshot, and computes the Temperature Deviation Factor
\* against the default acceptable range [-25, -15].
ForecastWithoutVehicle ==
  [][(/\ response'.op = "getTripRiskForecast"
      /\ response' # response \/ tripRiskSnapshot' # tripRiskSnapshot)
       => \A t \in trip :
            (/\ t.visibleId = response'.id
             /\ \A v \in vehicle : v.visibleId # t.vehicle_id)
              => /\ response'.status = "ok"
                 /\ Len(tripRiskSnapshot') = Len(tripRiskSnapshot) + 1
                 /\ tripRiskSnapshot'[Len(tripRiskSnapshot')].trip_id = t.visibleId
                 /\ tripRiskSnapshot'[Len(tripRiskSnapshot')].score
                      = response'.body[1].score
                 /\ response'.body[1].factors[1]
                      = calculateTempDeviation(t.avg_temp_recorded, -25, -15)]_vars

\* the only vehicle ever created was deleted; the forecast of its completed
\* trip found the recorded average of -21 inside the default range
ForecastWithoutVehicleWitness ==
  /\ response.status = "ok"
  /\ response.op = "getTripRiskForecast"
  /\ vehicle = {}
  /\ minted["vehicle"] = 1
  /\ vehicleRiskSnapshot = <<>>
  /\ \E t \in trip :
       /\ t.visibleId = response.id
       /\ t.avg_temp_recorded = <<-21, 1>>
  /\ Returned.factors[1].score = 0
  /\ Returned.factors[1].reason = NoReason

\* the trip a returned forecast is about
ForecastTripDoc == CHOOSE t \in trip : t.visibleId = response.id

\* C13: the predicted completion of a forecast is planned_end plus the delay
\* minutes for an active trip, else actual_end when present, else
\* planned_end; the delay minutes returned and stored are the delay of the
\* Delay Factor.
ForecastEta ==
  (response.status = "ok" /\ response.op = "getTripRiskForecast")
    => LET t == ForecastTripDoc
           r == Returned
           s == tripRiskSnapshot[Len(tripRiskSnapshot)]
       IN /\ t.status = "active"
               => r.predicted_eta
                    = t.planned_end + r.expected_delay_minutes * TicksPerMinute
          /\ (t.status # "active" /\ t.actual_end # null)
               => r.predicted_eta = t.actual_end[1]
          /\ (t.status # "active" /\ t.actual_end = null)
               => r.predicted_eta = t.planned_end
          /\ r.expected_delay_minutes
               = calculateDelayFactor(t.planned_end, t.actual_end, t.status).delayMinutes
          /\ s.predicted_eta = r.predicted_eta
          /\ s.expected_delay_minutes = r.expected_delay_minutes

\* a trip that ended late: the forecast predicts its actual end, which is not
\* its planned end plus the rounded delay
ForecastEtaWitness ==
  /\ response.status = "ok"
  /\ response.op = "getTripRiskForecast"
  /\ ForecastTripDoc.status = "completed"
  /\ Returned.expected_delay_minutes > 0
  /\ Returned.predicted_eta = ForecastTripDoc.actual_end[1]
  /\ Returned.predicted_eta
       # ForecastTripDoc.planned_end + Returned.expected_delay_minutes * TicksPerMinute

\* the alerts of the scored vehicle created in the trailing 24 hours
RecentAlerts ==
  {a \in alert : a.vehicle_id = response.id
                   /\ now - a.created_at <= 24 * 60 * TicksPerMinute}

\* C14: the Alert Density Factor is min(6 * critical + 3 * warning, 30) over
\* the vehicle's alerts of the trailing 24 hours, resolved or not, and gives
\* a reason exactly when there is such an alert of any severity.
AlertDensity ==
  (response.status = "ok" /\ response.op = "getVehicleRiskScore")
    => LET critical == Cardinality({a \in RecentAlerts : a.severity = "critical"})
           warning == Cardinality({a \in RecentAlerts : a.severity = "warning"})
           f == Returned.factors[2]
       IN /\ f.score = IF 6 * critical + 3 * warning < 30
                         THEN 6 * critical + 3 * warning ELSE 30
          /\ f.reason # NoReason <=> RecentAlerts # {}

\* 2 critical alerts, one of them resolved, and 1 warning give 15 points
AlertDensityWitness ==
  /\ response.status = "ok"
  /\ response.op = "getVehicleRiskScore"
  /\ Cardinality({a \in RecentAlerts : a.severity = "critical"}) = 2
  /\ Cardinality({a \in RecentAlerts : a.severity = "warning"}) = 1
  /\ \E a \in RecentAlerts : a.is_resolved
  /\ Returned.factors[2].score = 15

\* half minutes since the last telemetry update of the scored vehicle
HalfMinutesStale ==
  now - (CHOOSE v \in vehicle : v.visibleId = response.id).last_update

\* C15: the Data Staleness Factor is 20 for a gap of more than 60 minutes,
\* 15 for more than 30 up to 60, 10 for more than 15 up to 30, 5 for more
\* than 5 up to 15, else 0, and gives a reason exactly when it gives 10
\* points or more.
Staleness ==
  (response.status = "ok" /\ response.op = "getVehicleRiskScore")
    => LET g == HalfMinutesStale
           f == Returned.factors[3]
       IN /\ g > 120 => f.score = 20
          /\ (g > 60 /\ g <= 120) => f.score = 15
          /\ (g > 30 /\ g <= 60) => f.score = 10
          /\ (g > 10 /\ g <= 30) => f.score = 5
          /\ g <= 10 => f.score = 0
          /\ f.reason # NoReason <=> f.score >= 10

\* a last update 61 minutes old gives 20 points and a reason
StalenessWitness ==
  /\ response.status = "ok"
  /\ response.op = "getVehicleRiskScore"
  /\ HalfMinutesStale = 122
  /\ Returned.factors[3].score = 20
  /\ Returned.factors[3].reason # NoReason

\* the temperatures aggregated, their range, and whether their population
\* standard deviation exceeds 3: sum of (n * x - sum)^2 > 9 * n^3
AggregatedTemps == {<<r.id, r.temperature>> : r \in sensorReading}

TempRange ==
  LET values == {e[2] : e \in AggregatedTemps}
  IN (CHOOSE hi \in values : \A x \in values : x <= hi)
       - (CHOOSE lo \in values : \A x \in values : x >= lo)

RECURSIVE SumOfTemps(_)
SumOfTemps(S) ==
  IF S = {} THEN 0
  ELSE LET e == CHOOSE e \in S : TRUE IN e[2] + SumOfTemps(S \ {e})

RECURSIVE SquaredDeviations(_, _, _)
SquaredDeviations(S, n, sum) ==
  IF S = {} THEN 0
  ELSE LET e == CHOOSE e \in S : TRUE
       IN (n * e[2] - sum) * (n * e[2] - sum) + SquaredDeviations(S \ {e}, n, sum)

DeviationOver3 ==
  LET n == Cardinality(AggregatedTemps)
  IN SquaredDeviations(AggregatedTemps, n, SumOfTemps(AggregatedTemps)) > 9 * n * n * n

GpsPoints == GpsReadings(response.id)

\* the metres from point to point, summed along the points from `i` on
RECURSIVE MetresFrom(_, _)
MetresFrom(points, i) ==
  IF i >= Len(points) THEN 0
  ELSE haversineDistance(points[i].latitude, points[i].longitude,
                         points[i + 1].latitude, points[i + 1].longitude)
       + MetresFrom(points, i + 1)

\* C18: the Movement Anomaly Factor is 5 with the 'no GPS data' reason for no
\* point and 5 without reason for one point; for more points and cumulative
\* distance d it is 25 for d > 500 km, 15 for 300 < d <= 500, 10 for d < 1 km
\* with more than 10 points, else round(d / 500 * 10), with the 'unusual
\* distance' reason from 15 points, the 'stationary' reason in the
\* stationary case and no reason otherwise.
MovementAnomaly ==
  (response.status = "ok" /\ response.op = "getVehicleRiskScore")
    => LET n == Len(GpsPoints)
           d == MetresFrom(GpsPoints, 1)
           f == Returned.factors[4]
           stationary == d < 1000 /\ n > 10
       IN IF n = 0
            THEN /\ f.score = 5
                 /\ f.reason.text = "No GPS data available for distance calculation"
          ELSE IF n = 1 THEN f.score = 5 /\ f.reason = NoReason
          ELSE /\ d > 500000 => f.score = 25
               /\ (d > 300000 /\ d <= 500000) => f.score = 15
               /\ stationary => f.score = 10
               /\ (d <= 300000 /\ ~stationary)
                    => f.score = (20 * d + 500000) \div 1000000
               /\ f.reason.text = "Unusual distance pattern" <=> f.score >= 15
               /\ f.reason.text = "Vehicle appears stationary despite active readings"
                    <=> stationary
               /\ f.reason = NoReason <=> (f.score < 15 /\ ~stationary)

\* 11 points covering under half a kilometre: 10 points, 'stationary' reason
MovementAnomalyWitness ==
  /\ response.status = "ok"
  /\ response.op = "getVehicleRiskScore"
  /\ Len(GpsPoints) = 11
  /\ MetresFrom(GpsPoints, 1) > 0
  /\ MetresFrom(GpsPoints, 1) < 500
  /\ Returned.factors[4].score = 10
  /\ Returned.factors[4].reason.text
       = "Vehicle appears stationary despite active readings"

\* C19: the delay of the Delay Factor is the minutes by which now exceeds
\* planned_end for an active trip, the minutes by which actual_end exceeds
\* planned_end for another trip that has a later actual_end, else 0, in
\* whole minutes; the points are 25 above 120, 20 above 60, 15 above 30,
\* round(delay / 60 * 15) above 10, else 0; the reason is given exactly for a
\* delay above 0.
DelayFactorRule ==
  (response.status = "ok" /\ response.op = "getTripRiskForecast")
    => LET t == ForecastTripDoc
           late == IF t.status = "active" THEN now - t.planned_end
                   ELSE IF t.actual_end # null THEN t.actual_end[1] - t.planned_end
                   ELSE 0
           \* half minutes to whole minutes, the half rounded up
           delay == IF late > 0 THEN (late + 1) \div 2 ELSE 0
           f == Returned.factors[3]
       IN /\ Returned.expected_delay_minutes = delay
          /\ delay > 120 => f.score = 25
          /\ (delay > 60 /\ delay <= 120) => f.score = 20
          /\ (delay > 30 /\ delay <= 60) => f.score = 15
          /\ (delay > 10 /\ delay <= 30) => f.score = (delay + 2) \div 4
          /\ delay <= 10 => f.score = 0
          /\ f.reason # NoReason <=> delay > 0

\* a completed trip whose actual_end is its planned_end: no delay, no points
DelayFactorWitness ==
  /\ response.status = "ok"
  /\ response.op = "getTripRiskForecast"
  /\ ForecastTripDoc.status = "completed"
  /\ ForecastTripDoc.actual_end = <<ForecastTripDoc.planned_end>>
  /\ Returned.expected_delay_minutes = 0
  /\ Returned.factors[3] = Factor(0, NoReason)

\* C20: the Temperature Variance Factor aggregates the sensor readings of the
\* scored vehicle that lie in the trailing 6 hours, and returns the 5-point
\* 'no recent readings' result exactly when the vehicle has no such reading.
VarianceReadsVehicleReadings ==
  (response.status = "ok" /\ response.op = "getVehicleRiskScore")
    => LET own == {r \in sensorReading :
                     /\ r.vehicle_id = response.id
                     /\ now - r.timestamp <= 6 * 60 * TicksPerMinute}
           f == Returned.factors[1]
       IN /\ f = TempVarianceOf(GroupStats(own))
          /\ f.reason.text = "No recent sensor readings in last 6 hours" <=> own = {}

\* the acceptable range a forecast scores against: the range of the trip's
\* vehicle, or [-25, -15] when the vehicle is absent
ForecastRange ==
  LET owners == {v \in vehicle : v.visibleId = ForecastTripDoc.vehicle_id}
  IN IF owners = {} THEN <<-25, -15>>
     ELSE LET v == CHOOSE v \in owners : TRUE IN <<v.min_temp, v.max_temp>>

\* C21: the Temperature Deviation Factor is 5 with the 'no readings yet'
\* reason for a null average; otherwise, with the deviation of the average
\* outside [min_temp, max_temp]: for deviation 0 it is 10 when the distance to
\* the nearest bound is below 10% of the range and 0 otherwise; else 30 for a
\* deviation above 5, round(deviation / 5 * 30) above 2 and
\* round(deviation / 5 * 15) up to 2; the reason is given exactly for a
\* deviation above 0 or for 10 points at deviation 0.
TempDeviationRule ==
  (response.status = "ok" /\ response.op = "getTripRiskForecast")
    => LET avg == ForecastTripDoc.avg_temp_recorded
           lo == ForecastRange[1]
           hi == ForecastRange[2]
           f == Returned.factors[1]
       IN IF avg = null
            THEN /\ f.score = 5
                 /\ f.reason.text = "No temperature readings recorded yet"
          ELSE
            LET n == avg[1]
                d == avg[2]
                \* the average is n / d; every quantity below is scaled by d
                below == lo * d - n
                above == n - hi * d
                deviation == Max(Max(below, above), 0)
                nearest == Min(Abs(below), Abs(above))
                near == 10 * nearest < (hi - lo) * d
            IN /\ (deviation = 0 /\ near) => f.score = 10
               /\ (deviation = 0 /\ ~near) => f.score = 0
               /\ deviation > 5 * d => f.score = 30
               /\ (deviation > 2 * d /\ deviation <= 5 * d)
                    => f.score = (12 * deviation + d) \div (2 * d)
               /\ (deviation > 0 /\ deviation <= 2 * d)
                    => f.score = (6 * deviation + d) \div (2 * d)
               /\ f.reason # NoReason <=> (deviation > 0 \/ f.score >= 10)
               /\ f.reason.text = "Average temperature is outside acceptable range"
                    <=> deviation > 0

\* an average inside the range, half a degree from the lower bound of a range
\* of 10 degrees: 10 points and the 'near the edge' reason
TempDeviationWitness ==
  /\ response.status = "ok"
  /\ response.op = "getTripRiskForecast"
  /\ ForecastTripDoc.avg_temp_recorded = <<-49, 2>>
  /\ ForecastRange = <<-25, -15>>
  /\ Returned.factors[1].score = 10
  /\ Returned.factors[1].reason.text
       = "Average temperature is near the edge of acceptable range"

\* the trip alerts of the trip a forecast is about
AlertsOfTrip == {a \in tripAlert : a.trip_id = response.id}

\* C22: the Violation Count Factor is min(5 * unresolved + 2 * resolved, 25)
\* over the trip alerts of the trip, and its reason is given exactly when the
\* trip has at least one trip alert.
ViolationCount ==
  (response.status = "ok" /\ response.op = "getTripRiskForecast")
    => LET open == Cardinality({a \in AlertsOfTrip : ~a.is_resolved})
           closed == Cardinality({a \in AlertsOfTrip : a.is_resolved})
           weighted == 5 * open + 2 * closed
           f == Returned.factors[2]
       IN /\ f.score = IF weighted > 25 THEN 25 ELSE weighted
          /\ f.reason # NoReason <=> AlertsOfTrip # {}

\* two unresolved and one resolved alert of the trip beside an alert of
\* another trip: 12 points
ViolationCountWitness ==
  /\ response.status = "ok"
  /\ response.op = "getTripRiskForecast"
  /\ Cardinality({a \in AlertsOfTrip : ~a.is_resolved}) = 2
  /\ Cardinality({a \in AlertsOfTrip : a.is_resolved}) = 1
  /\ tripAlert \ AlertsOfTrip # {}
  /\ Returned.factors[2].score = 12
  /\ Returned.factors[2].reason # NoReason

\* the jumps above 3 degrees between readings of the forecast trip that are
\* neighbours in time
Jumps ==
  LET own == {r \in tripReading : r.trip_id = response.id}
      neighbours == {p \in own \X own :
                       /\ p[1].timestamp < p[2].timestamp
                       /\ ~\E r \in own : /\ p[1].timestamp < r.timestamp
                                          /\ r.timestamp < p[2].timestamp}
  IN {p \in neighbours : Abs(p[2].temperature - p[1].temperature) > 3}

\* C23: the Temperature Spike Factor counts the pairs of readings of the trip
\* that are consecutive in time and differ by more than 3 degrees; the points
\* are 20 for more than 10 spikes, 15 for more than 5, round(count / 5 * 10)
\* otherwise, plus 5 capped at 20 when the largest jump is above 10; the
\* reason is given exactly when there is a spike, and fewer than 2 readings
\* give 0 points and no reason.
TempSpikeRule ==
  (response.status = "ok" /\ response.op = "getTripRiskForecast")
    => LET spikeCount == Cardinality(Jumps)
           large == \E p \in Jumps : Abs(p[2].temperature - p[1].temperature) > 10
           base == IF spikeCount > 10 THEN 20
                   ELSE IF spikeCount > 5 THEN 15
                   ELSE 2 * spikeCount
           expected == IF large /\ base + 5 <= 20 THEN base + 5
                       ELSE IF large THEN 20
                       ELSE base
           f == Returned.factors[4]
       IN /\ f.score = expected
          /\ f.reason # NoReason <=> spikeCount > 0
          /\ Cardinality({r \in tripReading : r.trip_id = response.id}) < 2
               => f = Factor(0, NoReason)

\* six spikes, the largest of 11 degrees: 15 points plus 5
TempSpikeWitness ==
  /\ response.status = "ok"
  /\ response.op = "getTripRiskForecast"
  /\ Cardinality(Jumps) = 6
  /\ \E p \in Jumps : Abs(p[2].temperature - p[1].temperature) = 11
  /\ Returned.factors[4].score = 20
  /\ Returned.factors[4].reason # NoReason

\* the stored trips with the given id
TripsWithId(id) == {t \in trip : t.visibleId = id}

\* what a call of TripsService.start on `id` leaves behind
StartOutcome(id) ==
  /\ response'.op = "TripsService.start"
  /\ response'.id = id
  /\ response'.status = "ok" <=> \E t \in TripsWithId(id) : t.status = "planned"
  /\ response'.status = "ok"
       => \E t \in TripsWithId(id) :
            trip' = (trip \ {t}) \cup
                      {[t EXCEPT !.status = "active", !.actual_start = <<now>>]}
  /\ response'.status # "ok"
       => /\ trip' = trip
          /\ TripsWithId(id) # {} => response'.status = "BadRequest"

\* what a call of TripsService.complete on `id` leaves behind
CompleteOutcome(id) ==
  LET open == {a \in tripAlert : a.trip_id = id /\ ~a.is_resolved}
  IN /\ response'.op = "TripsService.complete"
     /\ response'.id = id
     /\ response'.status = "ok" <=> \E t \in TripsWithId(id) : t.status = "active"
     /\ response'.status = "ok"
          => \E t \in TripsWithId(id), u \in trip' :
               /\ trip' \ {u} = trip \ {t}
               /\ u.visibleId = id
               /\ u.status = IF open = {} THEN "completed" ELSE "failed"
               /\ u.actual_end = <<now>>
               /\ u.actual_start = t.actual_start
               /\ u.planned_end = t.planned_end
     /\ response'.status # "ok"
          => /\ trip' = trip
             /\ TripsWithId(id) # {} => response'.status = "BadRequest"

\* C24: TripsService.start succeeds only for a planned trip, which it makes
\* active and gives its actual_start; TripsService.complete succeeds only
\* for an active trip, which it makes completed without unresolved trip
\* alert and failed otherwise and gives its actual_end; in every other status
\* the call is rejected with BadRequest and the trips are left unchanged.
StartCompleteGuarded ==
  [][\A id \in TripIds :
       /\ TripsService_start(id) => StartOutcome(id)
       /\ TripsService_complete(id) => CompleteOutcome(id)]_vars

\* a trip that was completed with an unresolved alert is failed, and the
\* call to start it again was rejected
StartCompleteWitness ==
  /\ response.op = "TripsService.start"
  /\ response.status = "BadRequest"
  /\ \E t \in TripsWithId(response.id) :
       /\ t.status = "failed"
       /\ t.actual_start # null
       /\ t.actual_end # null
       /\ \E a \in tripAlert : a.trip_id = t.visibleId /\ ~a.is_resolved

\* C27: a forecast of a trip that has at least one trip reading does not
\* report 'no temperature readings recorded yet': its Temperature Deviation
\* Factor is the deviation of the average of the trip's readings from the
\* acceptable range.
ReadingsAreScored ==
  (response.status = "ok" /\ response.op = "getTripRiskForecast")
    => LET own == {r \in tripReading : r.trip_id = response.id}
           temps == Temperatures(own)
           f == Returned.factors[1]
       IN own # {}
            => /\ f.reason.text # "No temperature readings recorded yet"
               /\ f = calculateTempDeviation(<<SumSeq(temps), Len(temps)>>,
                                             ForecastRange[1], ForecastRange[2])

\* C30: a planned trip has neither actual_start nor actual_end, an active
\* trip has its actual_start and no actual_end, a completed or failed trip
\* has its actual_end.
StatusMatchesTimestamps ==
  \A t \in trip :
    /\ t.status = "planned" => (t.actual_start = null /\ t.actual_end = null)
    /\ t.status = "active" => (t.actual_start # null /\ t.actual_end = null)
    /\ t.status \in {"completed", "failed"} => t.actual_end # null

\* the caps of the four factors of an operation, in evaluation order
FactorCaps(op) ==
  IF op = "getVehicleRiskScore" THEN <<25, 30, 20, 25>> ELSE <<30, 25, 25, 20>>

\* C25: each factor's points lie between 0 and the factor's cap, so the four
\* factors sum to at most 100 and the returned score is their exact sum.
FactorsWithinCaps ==
  response.status = "ok"
    => LET f == Returned.factors
           caps == FactorCaps(response.op)
           total == f[1].score + f[2].score + f[3].score + f[4].score
       IN /\ Len(f) = 4
          /\ \A i \in 1..4 : f[i].score \in 0..caps[i]
          /\ total <= 100
          /\ Returned.score = total

\* a forecast with every factor at its cap: 30 + 25 + 25 + 20
FactorsWithinCapsWitness ==
  /\ response.status = "ok"
  /\ response.op = "getTripRiskForecast"
  /\ Returned.factors[1].score = 30
  /\ Returned.factors[2].score = 25
  /\ Returned.factors[3].score = 25
  /\ Returned.factors[4].score = 20
  /\ Returned.score = 100

\* the most points each factor of an operation gives without giving a reason
SilentPoints(op) ==
  IF op = "getVehicleRiskScore" THEN <<7, 0, 5, 6>> ELSE <<0, 0, 0, 0>>

\* C26: a result that carries the default reason has level LOW: the factors
\* that give no reason give at most 7, 0, 5 and 6 points for a vehicle and no
\* points for a trip, so a vehicle result with the default reason has a
\* score of at most 18 and a trip result with the default reason has score 0.
DefaultReasonIsLow ==
  response.status = "ok"
    => LET f == Returned.factors
           silent == SilentPoints(response.op)
       IN /\ \A i \in 1..4 : f[i].reason = NoReason => f[i].score <= silent[i]
          /\ Returned.reasons = <<DefaultReasonOf(response.op)>>
               => /\ Returned.level = "LOW"
                  /\ response.op = "getVehicleRiskScore" => Returned.score <= 18
                  /\ response.op = "getTripRiskForecast" => Returned.score = 0

\* a forecast of a trip on time, in range and without alerts or spikes
DefaultReasonIsLowWitness ==
  /\ response.status = "ok"
  /\ response.op = "getTripRiskForecast"
  /\ Returned.reasons = <<DefaultReasonOf(response.op)>>
  /\ Returned.score = 0
  /\ Returned.level = "LOW"
  /\ tripRiskSnapshot[Len(tripRiskSnapshot)].level = "LOW"

\* the two recorded averages scored, as fractions <<numerator, denominator>>
FirstAverage == (CHOOSE t \in trip : t.visibleId = TheTrip).avg_temp_recorded
SecondAverage == (CHOOSE t \in trip : t.visibleId # TheTrip).avg_temp_recorded

\* the acceptable range of the vehicle of the two trips
ScoredRange == LET v == CHOOSE v \in vehicle : TRUE IN <<v.min_temp, v.max_temp>>

\* how far the average lies outside the range, times its denominator
Outside(avg) ==
  Max(Max(ScoredRange[1] * avg[2] - avg[1], avg[1] - ScoredRange[2] * avg[2]), 0)

\* C29 as stated: an average outside the range receives at least as many
\* points as any average inside it, and the points do not decrease when the
\* deviation grows.
DeviationNeverRanksBelow ==
  response.status = "ok"
    => LET a == FirstAverage
           b == SecondAverage
           fa == Returned.first
           fb == Returned.second
       IN /\ (Outside(a) > 0 /\ Outside(b) = 0) => fa.score >= fb.score
          /\ Outside(a) * b[2] > Outside(b) * a[2] => fa.score >= fb.score

\* C29: among averages outside the range the points do not decrease when the
\* deviation grows; an average more than 2 degrees outside receives at least
\* 12 points, which is at least the points of any average inside the range;
\* an average at most 2 degrees outside receives at most 6 points, and an
\* average inside the range receives 0 or 10.
DeviationOrder ==
  response.status = "ok"
    => LET a == FirstAverage
           b == SecondAverage
           fa == Returned.first
           fb == Returned.second
       IN /\ (Outside(b) > 0 /\ Outside(a) * b[2] >= Outside(b) * a[2])
               => fa.score >= fb.score
          /\ (Outside(a) > 2 * a[2] /\ Outside(b) = 0)
               => (fa.score >= 12 /\ fa.score >= fb.score)
          /\ (Outside(a) > 0 /\ Outside(a) <= 2 * a[2]) => fa.score <= 6
          /\ Outside(b) = 0 => fb.score \in {0, 10}

\* an average 2 degrees below the range got 6 points, an average half a
\* degree inside it got 10
DeviationOrderWitness ==
  /\ response.status = "ok"
  /\ response.op = "calculateTempDeviation"
  /\ Outside(FirstAverage) = 2 * FirstAverage[2]
  /\ Outside(SecondAverage) = 0
  /\ Returned.first.score = 6
  /\ Returned.second.score = 10

\* C28: the Violation Count Factor of a forecast is the value of the trip's
\* alert set as it stood at one instant.  In these runs every alert set that
\* ever existed holds j unresolved and no resolved alerts, for a j up to the
\* number of trip alerts ever created, so the factor is min(5 * j, 25) with
\* the reason naming j violations, j of them unresolved, or no reason for
\* j = 0.
ViolationCountOfOneInstant ==
  \A p \in DOMAIN inflight :
    Len(inflight[p].factors) >= 2
      => \E j \in 0..minted["trip-alert"] :
           /\ inflight[p].factors[2].score = (IF 5 * j > 25 THEN 25 ELSE 5 * j)
           /\ inflight[p].factors[2].reason
                = IF j = 0 THEN NoReason
                  ELSE Reason("violation(s) detected", <<j, j>>)

====
